---- MODULE Spec2Model ----
(***************************************************************************)
(* A model of the vroomrs call-tree engine: SampleChunk::call_trees        *)
(* (src/src/sample/v2.rs), Node (src/src/nodetree.rs), the clock repair    *)
(* Android::fix_samples_time (src/src/android/mod.rs) and the frozen-frame *)
(* cause search (src/src/occurrence/frame_drop.rs).                        *)
(*                                                                         *)
(* Conventions.  Option<T> is a sequence of length 0 (None) or 1 (Some).   *)
(* A String is the sequence of its bytes.  A Vec<Node> forest is a         *)
(* function from paths to nodes: the path <<i>> is the i-th root and       *)
(* p \o <<j>> is the j-th child of the node at p, so that "the last        *)
(* child" is the child with the greatest index.                            *)
(***************************************************************************)
EXTENDS Integers, Sequences, FiniteSets, TLC

None == << >>
Some(x) == << x >>
IsSome(o) == Len(o) = 1
Unwrap(o) == o[1]

\* ------------------------------------------------------------------------
\* Strings as byte sequences
\* ------------------------------------------------------------------------
Empty == << >>
Dash == << 45 >>            \* "-"
Str_a == << 97 >>           \* "a"
Str_b == << 98 >>           \* "b"
Str_m == << 109 >>          \* "m"
Str_c_m_so == << 99, 47, 109, 46, 115, 111 >>   \* "c/m.so"

StartsWith(s, p) == Len(s) >= Len(p) /\ SubSeq(s, 1, Len(p)) = p
EndsWith(s, p) == Len(s) >= Len(p) /\ SubSeq(s, Len(s) - Len(p) + 1, Len(s)) = p

\* str::split(separator): the pieces between separators; "" gives one empty piece.
RECURSIVE Split(_, _)
Split(s, sep) ==
    IF \A i \in 1..Len(s) : s[i] # sep
    THEN << s >>
    ELSE LET i == CHOOSE k \in 1..Len(s) :
                      s[k] = sep /\ \A j \in 1..(k - 1) : s[j] # sep
         IN << SubSeq(s, 1, i - 1) >> \o Split(SubSeq(s, i + 1, Len(s)), sep)

IsAsciiLetter(b) == (b >= 65 /\ b <= 90) \/ (b >= 97 /\ b <= 122)

\* WINDOWS_PATH_REGEX: (?i)^([a-z]:\\|\\\\)
WindowsPathMatch(pkg) ==
    \/ Len(pkg) >= 3 /\ IsAsciiLetter(pkg[1]) /\ pkg[2] = 58 /\ pkg[3] = 92
    \/ Len(pkg) >= 2 /\ pkg[1] = 92 /\ pkg[2] = 92

\* PACKAGE_EXTENSION_REGEX: \.(dylib|so|a|dll|exe)$
PackageExtensions ==
    { << 46, 100, 121, 108, 105, 98 >>,     \* ".dylib"
      << 46, 115, 111 >>,                   \* ".so"
      << 46, 97 >>,                         \* ".a"
      << 46, 100, 108, 108 >>,              \* ".dll"
      << 46, 101, 120, 101 >> }             \* ".exe"

StripExtension(filename) ==
    IF \E e \in PackageExtensions : EndsWith(filename, e)
    THEN LET e == CHOOSE x \in PackageExtensions : EndsWith(filename, x)
         IN SubSeq(filename, 1, Len(filename) - Len(e))
    ELSE filename

\* trim_package without the step back to the component before an empty last one.
trim_package_last_piece_only(pkg) ==
    LET separator == IF WindowsPathMatch(pkg) THEN 92 ELSE 47
        pieces == Split(pkg, separator)
        last == pieces[Len(pieces)]
        filename == IF last = Empty THEN pkg ELSE last
    IN StripExtension(filename)

trim_package(pkg) ==
    LET separator == IF WindowsPathMatch(pkg) THEN 92 ELSE 47
        pieces == Split(pkg, separator)
        last == pieces[Len(pieces)]
        filename1 == IF Len(pieces) >= 2 /\ last = Empty
                     THEN pieces[Len(pieces) - 1] ELSE last
        filename == IF filename1 = Empty THEN pkg ELSE filename1
    IN StripExtension(filename)

\* ------------------------------------------------------------------------
\* Frame
\* ------------------------------------------------------------------------
Frame(function, module, package, in_app) ==
    [function |-> function, module |-> module, package |-> package, in_app |-> in_app]

module_or_package(f) ==
    IF IsSome(f.module) /\ Unwrap(f.module) # Empty THEN Unwrap(f.module)
    ELSE IF IsSome(f.package) /\ Unwrap(f.package) # Empty
         THEN trim_package(Unwrap(f.package))
         ELSE Empty

FunctionName(f) == IF IsSome(f.function) THEN Unwrap(f.function) ELSE Empty

\* ------------------------------------------------------------------------
\* The in_app rules of Frame (src/src/frame/mod.rs, src/src/packageutil)
\* ------------------------------------------------------------------------
Contains(s, sub) ==
    \E i \in 0..(Len(s) - Len(sub)) : SubSeq(s, i + 1, i + Len(sub)) = sub

Literals ==
    [ symbolicated |->   \* "symbolicated"
          << 115, 121, 109, 98, 111, 108, 105, 99, 97, 116, 101, 100 >>,
      main |->   \* "main"
          << 109, 97, 105, 110 >>,
      UIApplicationMain |->   \* "UIApplicationMain"
          << 85, 73, 65, 112, 112, 108, 105, 99, 97, 116, 105, 111, 110, 77, 97, 105, 110 >>,
      node_colon |->   \* "node:"
          << 110, 111, 100, 101, 58 >>,
      node_modules |->   \* "node_modules"
          << 110, 111, 100, 101, 95, 109, 111, 100, 117, 108, 101, 115 >>,
      bracket |->   \* "["
          << 91 >>,
      moz_extension |->   \* "@moz-extension"
          << 64, 109, 111, 122, 45, 101, 120, 116, 101, 110, 115, 105, 111, 110 >>,
      chrome_extension |->   \* "chrome-extension"
          << 99, 104, 114, 111, 109, 101, 45, 101, 120, 116, 101, 110, 115, 105, 111, 110 >>,
      Sentry |->   \* "Sentry"
          << 83, 101, 110, 116, 114, 121 >>,
      hermes |->   \* "hermes"
          << 104, 101, 114, 109, 101, 115 >>,
      private_var_containers |->   \* "/private/var/containers"
          << 47, 112, 114, 105, 118, 97, 116, 101, 47, 118, 97, 114, 47, 99, 111, 110, 116, 97, 105, 110, 101, 114, 115 >>,
      var_containers |->   \* "/var/containers"
          << 47, 118, 97, 114, 47, 99, 111, 110, 116, 97, 105, 110, 101, 114, 115 >>,
      DerivedData |->   \* "/Developer/Xcode/DerivedData"
          << 47, 68, 101, 118, 101, 108, 111, 112, 101, 114, 47, 88, 99, 111, 100, 101, 47, 68, 101, 114, 105, 118, 101, 100, 68, 97, 116, 97 >>,
      Bundle_Application |->   \* "/data/Containers/Bundle/Application"
          << 47, 100, 97, 116, 97, 47, 67, 111, 110, 116, 97, 105, 110, 101, 114, 115, 47, 66, 117, 110, 100, 108, 101, 47, 65, 112, 112, 108, 105, 99, 97, 116, 105, 111, 110 >>,
      library_std_src |->   \* "/library/std/src/"
          << 47, 108, 105, 98, 114, 97, 114, 121, 47, 115, 116, 100, 47, 115, 114, 99, 47 >>,
      usr_lib_system |->   \* "/usr/lib/system/"
          << 47, 117, 115, 114, 47, 108, 105, 98, 47, 115, 121, 115, 116, 101, 109, 47 >>,
      rustc |->   \* "/rustc/"
          << 47, 114, 117, 115, 116, 99, 47 >>,
      usr_local_rustup |->   \* "/usr/local/rustup/"
          << 47, 117, 115, 114, 47, 108, 111, 99, 97, 108, 47, 114, 117, 115, 116, 117, 112, 47 >>,
      usr_local_cargo |->   \* "/usr/local/cargo/"
          << 47, 117, 115, 114, 47, 108, 111, 99, 97, 108, 47, 99, 97, 114, 103, 111, 47 >>,
      site_packages |->   \* "/site-packages/"
          << 47, 115, 105, 116, 101, 45, 112, 97, 99, 107, 97, 103, 101, 115, 47 >>,
      dist_packages |->   \* "/dist-packages/"
          << 47, 100, 105, 115, 116, 45, 112, 97, 99, 107, 97, 103, 101, 115, 47 >>,
      site_packages_win |->   \* "\\site-packages\\"
          << 92, 115, 105, 116, 101, 45, 112, 97, 99, 107, 97, 103, 101, 115, 92 >>,
      dist_packages_win |->   \* "\\dist-packages\\"
          << 92, 100, 105, 115, 116, 45, 112, 97, 99, 107, 97, 103, 101, 115, 92 >>,
      usr_local |->   \* "/usr/local/"
          << 47, 117, 115, 114, 47, 108, 111, 99, 97, 108, 47 >>,
      sentry_sdk |->   \* "sentry_sdk"
          << 115, 101, 110, 116, 114, 121, 95, 115, 100, 107 >>,
      multiprocessing |->   \* "multiprocessing"
          << 109, 117, 108, 116, 105, 112, 114, 111, 99, 101, 115, 115, 105, 110, 103 >>,
      vendor |->   \* "/vendor/"
          << 47, 118, 101, 110, 100, 111, 114, 47 >> ]

Platforms == {"Android", "Cocoa", "Java", "JavaScript", "Node", "Php", "Python", "Rust"}

\* The fields of a Frame that normalize reads or writes; data is the
\* optional Data, given by its optional symbolicator_status.
FrameOf(function, in_app, module, package, path, status, data, platform) ==
    [function |-> function, in_app |-> in_app, module |-> module,
     package |-> package, path |-> path, status |-> status, data |-> data,
     platform |-> platform]

\* The first component of is_main's result.
is_main(f) ==
    IF f.status # Some(Literals.symbolicated) THEN FALSE
    ELSE f.function = Some(Literals.main) \/ f.function = Some(Literals.UIApplicationMain)

is_node_application_frame(f) ==
    \/ f.path = None
    \/ (/\ ~StartsWith(Unwrap(f.path), Literals.node_colon)
        /\ ~Contains(Unwrap(f.path), Literals.node_modules))

\* JS_SYSTEM_PACKAGE_REGEX: node_modules|^(@moz-extension|chrome-extension)
JsSystemPackageMatch(path) ==
    \/ Contains(path, Literals.node_modules)
    \/ StartsWith(path, Literals.moz_extension)
    \/ StartsWith(path, Literals.chrome_extension)

is_javascript_application_frame(f) ==
    IF IsSome(f.function) /\ StartsWith(Unwrap(f.function), Literals.bracket) THEN FALSE
    ELSE \/ f.path = None
         \/ (IsSome(f.path)
             /\ (Unwrap(f.path) = Empty \/ ~JsSystemPackageMatch(Unwrap(f.path))))

COCOA_SYSTEM_PACKAGE == {Literals.Sentry, Literals.hermes}

is_cocoa_application_package(p) ==
    \/ StartsWith(p, Literals.private_var_containers)
    \/ StartsWith(p, Literals.var_containers)
    \/ Contains(p, Literals.DerivedData)
    \/ Contains(p, Literals.Bundle_Application)

is_cocoa_application_frame(f) ==
    IF is_main(f) THEN FALSE
    ELSE IF module_or_package(f) \in COCOA_SYSTEM_PACKAGE THEN FALSE
    ELSE IF IsSome(f.package) THEN is_cocoa_application_package(Unwrap(f.package))
    ELSE FALSE

\* The Rust rule with a frame without a package taken for the application's.
is_rust_application_frame_or_no_package(f) ==
    IsSome(f.package) =>
        /\ ~Contains(Unwrap(f.package), Literals.library_std_src)
        /\ ~StartsWith(Unwrap(f.package), Literals.usr_lib_system)
        /\ ~StartsWith(Unwrap(f.package), Literals.rustc)
        /\ ~StartsWith(Unwrap(f.package), Literals.usr_local_rustup)
        /\ ~StartsWith(Unwrap(f.package), Literals.usr_local_cargo)

is_rust_application_frame(f) ==
    /\ IsSome(f.package)
    /\ ~Contains(Unwrap(f.package), Literals.library_std_src)
    /\ ~StartsWith(Unwrap(f.package), Literals.usr_lib_system)
    /\ ~StartsWith(Unwrap(f.package), Literals.rustc)
    /\ ~StartsWith(Unwrap(f.package), Literals.usr_local_rustup)
    /\ ~StartsWith(Unwrap(f.package), Literals.usr_local_cargo)

\* The standard library modules, as far as the frames of the model name them.
PYTHON_STDLIB == {Literals.multiprocessing}

is_python_application_frame(f) ==
    IF /\ IsSome(f.path)
       /\ \/ Contains(Unwrap(f.path), Literals.site_packages)
          \/ Contains(Unwrap(f.path), Literals.dist_packages)
          \/ Contains(Unwrap(f.path), Literals.site_packages_win)
          \/ Contains(Unwrap(f.path), Literals.dist_packages_win)
          \/ StartsWith(Unwrap(f.path), Literals.usr_local)
    THEN FALSE
    ELSE IF IsSome(f.module)
    THEN LET module == Split(Unwrap(f.module), 46)[1]
         IN IF module = Literals.sentry_sdk THEN FALSE
            ELSE module \notin PYTHON_STDLIB
    ELSE TRUE

is_php_application_frame(f) ==
    f.path = None \/ ~Contains(Unwrap(f.path), Literals.vendor)

\* `match self.platform.unwrap() { ... }` of set_in_app
IsApplicationByRule(f) ==
    CASE Unwrap(f.platform) = "Node" -> is_node_application_frame(f)
      [] Unwrap(f.platform) = "JavaScript" -> is_javascript_application_frame(f)
      [] Unwrap(f.platform) = "Cocoa" -> is_cocoa_application_frame(f)
      [] Unwrap(f.platform) = "Rust" -> is_rust_application_frame(f)
      [] Unwrap(f.platform) = "Python" -> is_python_application_frame(f)
      [] Unwrap(f.platform) = "Php" -> is_php_application_frame(f)
      [] OTHER -> FALSE

\* The guard of set_in_app keeping any declared value.
KeepsDeclaredAlways(f, p) == IsSome(f.in_app)

\* The guard under which set_in_app returns without a change.
KeepsDeclared(f, p) ==
    IsSome(f.in_app) /\ IsSome(f.platform) /\ p = Unwrap(f.platform)

set_in_app(f, p) ==
    IF KeepsDeclared(f, p) THEN f
    ELSE [f EXCEPT !.in_app = Some(IsApplicationByRule(f))]

set_platform(f, p) ==
    IF f.platform = None THEN [f EXCEPT !.platform = Some(p)] ELSE f

set_status(f) ==
    IF IsSome(f.data) /\ IsSome(Unwrap(f.data)) /\ Unwrap(Unwrap(f.data)) # Empty
    THEN [f EXCEPT !.status = Unwrap(f.data)]
    ELSE f

\* ------------------------------------------------------------------------
\* Fnv64 (FNV-1a).  The state kept is the hash modulo HashModulus: the xor
\* and the multiplication act on the low bits independently of the high
\* ones, so this is exactly the low 16 bits of the 64-bit fingerprint.
\* ------------------------------------------------------------------------
HashModulus == 65536
FnvOffsetBasis == 8997      \* 0xcbf29ce484222325 % 2^16
FnvPrime == 435             \* 0x00000100000001b3 % 2^16

RECURSIVE BitXor(_, _)
BitXor(a, b) ==
    IF a = 0 THEN b
    ELSE IF b = 0 THEN a
    ELSE 2 * BitXor(a \div 2, b \div 2) + (((a % 2) + (b % 2)) % 2)

RECURSIVE HasherWrite(_, _)
HasherWrite(h, bytes) ==
    IF bytes = << >> THEN h
    ELSE HasherWrite((BitXor(h, Head(bytes)) * FnvPrime) % HashModulus, Tail(bytes))

HasherDefault == FnvOffsetBasis
HasherFinish(h) == h

\* Frame::write_to_hash: the package part, then the function name, each
\* replaced by "-" when empty.
FrameWriteToHash(f, h) ==
    LET s == module_or_package(f)
        fn == FunctionName(f)
    IN HasherWrite(HasherWrite(h, IF s = Empty THEN Dash ELSE s),
                   IF fn = Empty THEN Dash ELSE fn)

\* ------------------------------------------------------------------------
\* Node (src/src/nodetree.rs)
\* ------------------------------------------------------------------------
NodeFromFrame(f, start, end, fingerprint) ==
    [ fingerprint |-> fingerprint,
      is_application |-> IF IsSome(f.in_app) THEN Unwrap(f.in_app) ELSE TRUE,
      name |-> FunctionName(f),
      package |-> module_or_package(f),
      frame |-> f,
      sample_count |-> 1,
      start_ns |-> start,
      end_ns |-> end,
      duration_ns |-> IF end > 0 THEN end - start ELSE 0 ]

\* set_duration that forgets the duration.
NodeSetDurationStale(node, t) == [node EXCEPT !.end_ns = t]

NodeSetDuration(node, t) ==
    [node EXCEPT !.end_ns = t, !.duration_ns = t - node.start_ns]

\* update that counts the sample and leaves the end of the node in place.
NodeUpdateCountOnly(node, timestamp) ==
    [node EXCEPT !.sample_count = node.sample_count + 1]

NodeUpdate(node, timestamp) ==
    NodeSetDuration([node EXCEPT !.sample_count = node.sample_count + 1], timestamp)

\* A forest as a function from paths to nodes.
EmptyForest == [p \in {} |-> 0]
\* An empty HashMap of forests; also what is left of the forests when the
\* call returns an error and drops them.
NoTrees == [t \in {} |-> EmptyForest]
Put(f, k, v) == [x \in (DOMAIN f) \cup {k} |-> IF x = k THEN v ELSE f[x]]
Parent(p) == SubSeq(p, 1, Len(p) - 1)
ChildPaths(forest, p) == {q \in DOMAIN forest : Len(q) = Len(p) + 1 /\ Parent(q) = p}
NumChildren(forest, p) == Cardinality(ChildPaths(forest, p))
IsPrefix(p, q) == Len(p) <= Len(q) /\ SubSeq(q, 1, Len(p)) = p

\* ------------------------------------------------------------------------
\* The input of SampleChunk::call_trees
\* ------------------------------------------------------------------------
\* profile.frames: "a"; "b" in package "c/m.so" (a system frame); "b" in
\* module "m"; a frame with neither a name nor a package.
Frames ==
    << Frame(Some(Str_a), None, None, None),
       Frame(Some(Str_b), None, Some(Str_c_m_so), Some(FALSE)),
       Frame(Some(Str_b), Some(Str_m), None, Some(TRUE)),
       Frame(None, None, None, None) >>

\* MAX_STACK_DEPTH is 128 in the source; the model scales it down to stacks
\* it can enumerate.  Nothing below depends on its value but the length of
\* the deep stack.
MAX_STACK_DEPTH == 8

\* profile.stacks, leaf first; frame ids count from 0.  The sixth stack names
\* a frame index equal to the length of the frame table, the last one has one
\* frame more than MAX_STACK_DEPTH.
Stacks ==
    << << 0 >>,
       << 1, 0 >>,
       << 2, 0 >>,
       << 3, 3 >>,
       << >>,
       << Len(Frames), 0 >>,
       [k \in 1..(MAX_STACK_DEPTH + 1) |-> 0] >>

\* The id of the deep stack.
DeepStackId == Len(Stacks) - 1

Threads == {"1", "2"}

\* Sample::timestamp is a float of seconds.  A timestamp t of the model is
\* t / SubNs nanoseconds, so that the conversion to u64 nanoseconds truncates.
SubNs == 2

\* (timestamp * 1e9) as u64: truncation toward zero, negative values give 0.
ToNs(timestamp) == IF timestamp < 0 THEN 0 ELSE timestamp \div SubNs

Sample(stack_id, thread_id, timestamp) ==
    [stack_id |-> stack_id, thread_id |-> thread_id, timestamp |-> timestamp]

\* slice::sort_by on the timestamp: a stable sort.
RECURSIVE InsertByTimestamp(_, _)
InsertByTimestamp(sorted, x) ==
    IF sorted = << >> THEN << x >>
    ELSE LET l == sorted[Len(sorted)]
         IN IF l.timestamp <= x.timestamp
            THEN Append(sorted, x)
            ELSE Append(InsertByTimestamp(SubSeq(sorted, 1, Len(sorted) - 1), x), l)

RECURSIVE SortByTimestamp(_)
SortByTimestamp(s) ==
    IF s = << >> THEN << >>
    ELSE InsertByTimestamp(SortByTimestamp(SubSeq(s, 1, Len(s) - 1)), s[Len(s)])

\* samples_by_thread_id: the samples of each thread, in sorted order.
GroupByThread(s) ==
    [t \in {s[i].thread_id : i \in 1..Len(s)} |->
        SelectSeq(s, LAMBDA x : x.thread_id = t)]

\* The chunks explored: every choice of stack ids (one past the end of the
\* stack table included, the deep stack left out) for the samples, spread
\* over the threads and given timestamps in the ways listed; and one thread
\* sampled three times in the deep stack.
ThreadAssignments ==
    { << "1", "1", "1", "1" >>,
      << "1", "1", "1", "2" >>,
      << "1", "2", "1", "2" >>,
      << "1", "1" >>,
      << "2" >> }

\* strictly increasing; times that truncate to 0 ns; an unsorted input with
\* a tie.
TimestampVectors ==
    { << 0, 2, 4, 7 >>,
      << -1, 0, 1, 2 >>,
      << 6, 2, 2, 0 >>,
      << 1, 4 >>,
      << 3 >> }

SampleInputs ==
    UNION { { [i \in DOMAIN th |-> Sample(ids[i], th[i], ts[i])] :
                ids \in [DOMAIN th -> (0..Len(Stacks)) \ {DeepStackId}],
                ts \in {v \in TimestampVectors : Len(v) = Len(th)} } :
            th \in ThreadAssignments }
    \cup { << Sample(DeepStackId, "1", 0), Sample(DeepStackId, "1", 2),
              Sample(DeepStackId, "1", 4) >> }

ActiveThreadChoices == {None, Some("1")}

\* ------------------------------------------------------------------------
\* SampleChunk::call_trees (src/src/sample/v2.rs)
\* ------------------------------------------------------------------------
VARIABLES
    samples,              \* self.profile.samples
    active_thread_id,     \* the argument of call_trees
    pc,                   \* where call_trees is
    samples_by_thread_id,
    pending,              \* the keys of samples_by_thread_id not yet iterated
    thread_id,            \* the key of the current iteration
    sample_index,
    hasher,
    trees_by_thread_id,
    result                \* "none" until call_trees returns

treeVars == << samples, active_thread_id, pc, samples_by_thread_id, pending,
               thread_id, sample_index, hasher, trees_by_thread_id, result >>

\* Android::fix_samples_time (src/src/android/mod.rs)
VARIABLES
    clock,                         \* self.clock
    events,                        \* self.events
    events_in,                     \* self.events as it was when the call began
    fix_pc,                        \* where fix_samples_time is
    thread_max_time_ns,
    thread_latest_sample_time_ns,
    regression_index,
    event_index,                   \* `i` of the loop from regression_idx
    fix_calls                      \* the calls of fix_samples_time that returned

fixVars == << clock, events, events_in, fix_pc, thread_max_time_ns,
              thread_latest_sample_time_ns, regression_index, event_index,
              fix_calls >>

\* FrozenFrameStats (src/src/occurrence/frame_drop.rs)
VARIABLES
    call_tree,       \* the tree under the root given to the search
    measurement,     \* the MeasurementValue the window is made from
    stats,           \* the FrozenFrameStats, once made
    cause,           \* what find_frame_drop_cause_frame returned
    drop_pc

dropVars == << call_tree, measurement, stats, cause, drop_pc >>

\* Frame::normalize (src/src/frame/mod.rs)
VARIABLES
    norm_frame,      \* self
    norm_frame_in,   \* self as it was before the first call
    norm_platform,   \* the argument p, the containing platform
    norm_step,       \* the statement of normalize to run next, from 1
    norm_calls       \* the number of calls that have returned

normVars == << norm_frame, norm_frame_in, norm_platform, norm_step, norm_calls >>

\* find_frame_drop_cause (src/src/occurrence/frame_drop.rs)
VARIABLES
    measurements,              \* profile.get_measurements()
    transaction_thread_id,     \* profile.get_transaction().active_thread_id
    call_trees_per_thread_id,
    occurrences,
    occurrences_in,            \* occurrences as it was when the call began
    origins,                   \* for each occurrence pushed: its value and root
    cause_pc,
    mv_index,                  \* the position in frame_drops.values, from 0
    root_index                 \* the position in call_trees, from 0

causeVars == << measurements, transaction_thread_id, call_trees_per_thread_id,
                occurrences, occurrences_in, origins, cause_pc, mv_index,
                root_index >>

\* Frame::module_or_package (src/src/frame/mod.rs)
VARIABLES
    name_frame,                \* the frame asked for its name
    name_result                \* what module_or_package returned, once it has

nameVars == << name_frame, name_result >>

vars == << treeVars, fixVars, dropVars, normVars, causeVars, nameVars >>

\* The variables the operations other than call_trees work on.
notTreeVars == << fixVars, dropVars, normVars, causeVars, nameVars >>
\* The variables the operations other than fix_samples_time work on.
notFixVars == << treeVars, dropVars, normVars, causeVars, nameVars >>
\* The variables the operations other than the frame drop search work on.
notDropVars == << treeVars, fixVars, normVars, causeVars, nameVars >>
\* The variables the operations other than normalize work on.
notNormVars == << treeVars, fixVars, dropVars, causeVars, nameVars >>
\* The variables the operations other than find_frame_drop_cause work on.
notCauseVars == << treeVars, fixVars, dropVars, normVars, nameVars >>

\* The variables the operations other than module_or_package work on.
notNameVars == << treeVars, fixVars, dropVars, normVars, causeVars >>

\* No frame is asked for its name.
NameIdle ==
    /\ name_frame = << >>
    /\ name_result = None

\* No profile is searched for frame drops.
CauseIdle ==
    /\ measurements = << >>
    /\ transaction_thread_id = 0
    /\ call_trees_per_thread_id = << >>
    /\ occurrences = << >>
    /\ occurrences_in = << >>
    /\ origins = << >>
    /\ cause_pc = "idle"
    /\ mv_index = 0
    /\ root_index = 0

\* No frame is being normalized.
NormIdle ==
    /\ norm_frame = << >>
    /\ norm_frame_in = << >>
    /\ norm_platform = "Android"
    /\ norm_step = 0
    /\ norm_calls = 0

\* No frozen frame is looked at.
DropIdle ==
    /\ call_tree = << >>
    /\ measurement = << >>
    /\ stats = << >>
    /\ cause = << >>
    /\ drop_pc = "idle"

\* No Android trace is loaded.
FixIdle ==
    /\ clock = "None"
    /\ events = << >>
    /\ events_in = << >>
    /\ fix_pc = "idle"
    /\ thread_max_time_ns = << >>
    /\ thread_latest_sample_time_ns = << >>
    /\ regression_index = None
    /\ event_index = 0
    /\ fix_calls = 0

CallTreesInit ==
    /\ samples \in SampleInputs
    /\ active_thread_id \in ActiveThreadChoices
    /\ pc = "start"
    /\ samples_by_thread_id = [t \in {} |-> << >>]
    /\ pending = {}
    /\ thread_id = None
    /\ sample_index = 0
    /\ hasher = HasherDefault
    /\ trees_by_thread_id = NoTrees
    /\ result = "none"

\* The root branch never merging: every sample makes a new root.
RootStepAlwaysNew(trees, frame, fingerprint, sample_timestamp, next_timestamp) ==
    LET n == NumChildren(trees, << >>)
    IN [trees |-> Put(trees, << n + 1 >>,
                      NodeFromFrame(frame, sample_timestamp, next_timestamp, fingerprint)),
        current |-> << n + 1 >>]

\* The iteration `match current { None => ... }`: the frame is the root of
\* the sample's stack.  Gives the forest and the path of `current`.
RootStep(trees, frame, fingerprint, sample_timestamp, next_timestamp) ==
    LET n == NumChildren(trees, << >>)
        last_tree == << n >>
    IN IF n > 0 /\ trees[last_tree].fingerprint = fingerprint
                /\ trees[last_tree].end_ns = sample_timestamp
       THEN [trees |-> Put(trees, last_tree, NodeUpdate(trees[last_tree], next_timestamp)),
             current |-> last_tree]
       ELSE [trees |-> Put(trees, << n + 1 >>,
                           NodeFromFrame(frame, sample_timestamp, next_timestamp, fingerprint)),
             current |-> << n + 1 >>]

\* The child branch merging on the fingerprint alone.
ChildStepNoContiguity(trees, node, frame, fingerprint, sample_timestamp, next_timestamp) ==
    LET i == NumChildren(trees, node)
        last_child == node \o << i >>
    IN IF i > 0 /\ trees[last_child].fingerprint = fingerprint
       THEN [trees |-> Put(trees, last_child, NodeUpdate(trees[last_child], next_timestamp)),
             current |-> last_child]
       ELSE [trees |-> Put(trees, node \o << i + 1 >>,
                           NodeFromFrame(frame, sample_timestamp, next_timestamp, fingerprint)),
             current |-> node \o << i + 1 >>]

\* The iteration `match current { Some(node) => ... }`.
ChildStep(trees, node, frame, fingerprint, sample_timestamp, next_timestamp) ==
    LET i == NumChildren(trees, node)
        last_child == node \o << i >>
    IN IF i > 0 /\ trees[last_child].fingerprint = fingerprint
                /\ trees[last_child].end_ns = sample_timestamp
       THEN [trees |-> Put(trees, last_child, NodeUpdate(trees[last_child], next_timestamp)),
             current |-> last_child]
       ELSE [trees |-> Put(trees, node \o << i + 1 >>,
                           NodeFromFrame(frame, sample_timestamp, next_timestamp, fingerprint)),
             current |-> node \o << i + 1 >>]

\* `for &frame_id in stack.iter().rev()`: the stack from its k-th last
\* entry down to its first, with the hasher accumulating over the frames.
RECURSIVE WalkStack(_, _, _, _, _, _, _)
WalkStack(trees, stack, k, current, h, sample_timestamp, next_timestamp) ==
    IF k = 0 THEN [trees |-> trees, hasher |-> h]
    ELSE LET frame == Frames[stack[k] + 1]
             h2 == FrameWriteToHash(frame, h)
             fingerprint == HasherFinish(h2)
             step == IF current = None
                     THEN RootStep(trees, frame, fingerprint,
                                   sample_timestamp, next_timestamp)
                     ELSE ChildStep(trees, current, frame, fingerprint,
                                    sample_timestamp, next_timestamp)
         IN WalkStack(step.trees, stack, k - 1, step.current, h2,
                      sample_timestamp, next_timestamp)

\* The hasher carried over to the next sample.
HasherNoReset(h) == h

\* `hasher = Fnv64::default()` at the end of a sample.
HasherReset(h) == HasherDefault

\* A loop that stops one sample early.
LoopEndShort(thread_samples) == Len(thread_samples) - 2

\* `0..samples.len() - 1`: the sample indices the loop visits are below this.
LoopEnd(thread_samples) == Len(thread_samples) - 1

\* The stack id checked against the frame table.
StackIdValidAgainstFrames(stack_id) == ~(Len(Frames) <= stack_id)

StackIdValid(stack_id) == ~(Len(Stacks) <= stack_id)
FrameIdValid(frame_id) == ~(Len(Frames) <= frame_id)
StackFramesValid(stack) == \A k \in 1..Len(stack) : FrameIdValid(stack[k])

\* The sort, the grouping by thread and the start of the loop over threads.
CallTreesBegin ==
    /\ pc = "start"
    /\ samples' = SortByTimestamp(samples)
    /\ samples_by_thread_id' = GroupByThread(samples')
    /\ pending' = DOMAIN samples_by_thread_id'
    /\ pc' = "threads"
    /\ UNCHANGED notTreeVars
    /\ UNCHANGED << active_thread_id, thread_id, sample_index, hasher,
                    trees_by_thread_id, result >>

\* The loop over the HashMap takes the threads in an arbitrary order; a
\* thread other than the active one is skipped.
ThreadSkip(t) ==
    /\ pc = "threads"
    /\ t \in pending
    /\ IsSome(active_thread_id) /\ t # Unwrap(active_thread_id)
    /\ pending' = pending \ {t}
    /\ UNCHANGED notTreeVars
    /\ UNCHANGED << samples, active_thread_id, pc, samples_by_thread_id, thread_id,
                    sample_index, hasher, trees_by_thread_id, result >>

ThreadEnter(t) ==
    /\ pc = "threads"
    /\ t \in pending
    /\ ~(IsSome(active_thread_id) /\ t # Unwrap(active_thread_id))
    /\ pending' = pending \ {t}
    /\ thread_id' = Some(t)
    /\ sample_index' = 0
    /\ pc' = "samples"
    /\ UNCHANGED notTreeVars
    /\ UNCHANGED << samples, active_thread_id, samples_by_thread_id, hasher,
                    trees_by_thread_id, result >>

ThreadSamples == samples_by_thread_id[Unwrap(thread_id)]
CurrentSample == ThreadSamples[sample_index + 1]

InLoop == pc = "samples" /\ sample_index < LoopEnd(ThreadSamples)

Return(r) ==
    /\ result' = r
    /\ pc' = "done"

SampleInvalidStackId ==
    /\ InLoop
    /\ ~StackIdValid(CurrentSample.stack_id)
    /\ Return("InvalidStackId")
    /\ trees_by_thread_id' = NoTrees
    /\ UNCHANGED notTreeVars
    /\ UNCHANGED << samples, active_thread_id, samples_by_thread_id, pending,
                    thread_id, sample_index, hasher >>

SampleInvalidFrameId ==
    /\ InLoop
    /\ StackIdValid(CurrentSample.stack_id)
    /\ ~StackFramesValid(Stacks[CurrentSample.stack_id + 1])
    /\ Return("InvalidFrameId")
    /\ trees_by_thread_id' = NoTrees
    /\ UNCHANGED notTreeVars
    /\ UNCHANGED << samples, active_thread_id, samples_by_thread_id, pending,
                    thread_id, sample_index, hasher >>

\* One iteration of the loop over a thread's samples, for a valid sample.
SampleWalk ==
    /\ InLoop
    /\ StackIdValid(CurrentSample.stack_id)
    /\ StackFramesValid(Stacks[CurrentSample.stack_id + 1])
    /\ LET stack == Stacks[CurrentSample.stack_id + 1]
           t == Unwrap(thread_id)
           next_timestamp == ToNs(ThreadSamples[sample_index + 2].timestamp)
           sample_timestamp == ToNs(CurrentSample.timestamp)
           trees == IF t \in DOMAIN trees_by_thread_id
                    THEN trees_by_thread_id[t] ELSE EmptyForest
           w == WalkStack(trees, stack, Len(stack), None, hasher,
                          sample_timestamp, next_timestamp)
       IN /\ trees_by_thread_id' =
                IF stack = << >> THEN trees_by_thread_id
                ELSE Put(trees_by_thread_id, t, w.trees)
          /\ hasher' = HasherReset(w.hasher)
    /\ sample_index' = sample_index + 1
    /\ UNCHANGED notTreeVars
    /\ UNCHANGED << samples, active_thread_id, pc, samples_by_thread_id, pending,
                    thread_id, result >>

\* The loop over a thread's samples ends before its last sample.
ThreadEnd ==
    /\ pc = "samples"
    /\ ~(sample_index < LoopEnd(ThreadSamples))
    /\ pc' = "threads"
    /\ thread_id' = None
    /\ UNCHANGED notTreeVars
    /\ UNCHANGED << samples, active_thread_id, samples_by_thread_id, pending,
                    sample_index, hasher, trees_by_thread_id, result >>

ReturnOk ==
    /\ pc = "threads"
    /\ pending = {}
    /\ Return("Ok")
    /\ UNCHANGED notTreeVars
    /\ UNCHANGED << samples, active_thread_id, samples_by_thread_id, pending,
                    thread_id, sample_index, hasher, trees_by_thread_id >>

Next ==
    \/ CallTreesBegin
    \/ \E t \in Threads : ThreadSkip(t)
    \/ \E t \in Threads : ThreadEnter(t)
    \/ SampleInvalidStackId
    \/ SampleInvalidFrameId
    \/ SampleWalk
    \/ ThreadEnd
    \/ ReturnOk

\* No sample chunk is loaded.
CallTreesIdle ==
    /\ samples = << >>
    /\ active_thread_id = None
    /\ pc = "idle"
    /\ samples_by_thread_id = [t \in {} |-> << >>]
    /\ pending = {}
    /\ thread_id = None
    /\ sample_index = 0
    /\ hasher = HasherDefault
    /\ trees_by_thread_id = NoTrees
    /\ result = "none"

Init == CallTreesInit /\ FixIdle /\ DropIdle /\ NormIdle /\ CauseIdle /\ NameIdle

Spec == Init /\ [][Next]_vars

\* ------------------------------------------------------------------------
\* Properties of SampleChunk::call_trees
\* ------------------------------------------------------------------------
ForestOf(trees, t) == IF t \in DOMAIN trees THEN trees[t] ELSE EmptyForest

\* The step just taken is one iteration of the loop over a thread's samples.
SampleWalked == pc = "samples" /\ sample_index' = sample_index + 1

\* The fingerprint of the j-th frame from the root of a stack: the hash of
\* the frames from the root down to it.
RECURSIVE HashPrefix(_, _)
HashPrefix(stack, j) ==
    IF j = 0 THEN HasherDefault
    ELSE FrameWriteToHash(Frames[stack[Len(stack) - j + 1] + 1], HashPrefix(stack, j - 1))

\* The nodes of F2 that are new or differ from the node of F at their path.
Touched(F, F2) == {p \in DOMAIN F2 : p \notin DOMAIN F \/ F[p] # F2[p]}

MergeRule(F, F2, stack, start, next) ==
    LET T == Touched(F, F2)
    IN /\ DOMAIN F \subseteq DOMAIN F2
       /\ Cardinality(T) = Len(stack)
       /\ \A j \in 1..Len(stack) : \E p \in T : Len(p) = j
       /\ \A p \in T :
            LET q == Parent(p)
                fp == HasherFinish(HashPrefix(stack, Len(p)))
                n == NumChildren(F, q)
                last == q \o << n >>
            IN /\ Len(p) > 1 => q \in T
               /\ IF n > 0 /\ F[last].fingerprint = fp /\ F[last].end_ns = start
                  THEN /\ p = last
                       /\ NumChildren(F2, q) = n
                       /\ F2[p] = [F[p] EXCEPT !.sample_count = F[p].sample_count + 1,
                                               !.end_ns = next,
                                               !.duration_ns = F2[p].duration_ns]
                  ELSE /\ p = q \o << n + 1 >>
                       /\ p \notin DOMAIN F
                       /\ NumChildren(F2, q) = n + 1
                       /\ F2[p].fingerprint = fp
                       /\ F2[p].sample_count = 1
                       /\ F2[p].start_ns = start
                       /\ F2[p].end_ns = next

\* C1: at each tree position the last-inserted node is extended (count + 1,
\* end_ns = the next sample's time, no node created) exactly when it has the
\* fingerprint of the sample's frame and ends where the sample starts; in
\* every other case a new node is appended as the last sibling.
C1_MergeRule ==
    [][SampleWalked =>
        LET t == Unwrap(thread_id)
            s == CurrentSample
        IN /\ MergeRule(ForestOf(trees_by_thread_id, t), ForestOf(trees_by_thread_id', t),
                        Stacks[s.stack_id + 1], ToNs(s.timestamp),
                        ToNs(ThreadSamples[sample_index + 2].timestamp))
           /\ \A u \in DOMAIN trees_by_thread_id \ {t} :
                 u \in DOMAIN trees_by_thread_id'
                 /\ trees_by_thread_id'[u] = trees_by_thread_id[u]]_vars

\* Two occurrences of the same frame that are not contiguous in time stand
\* as adjacent siblings, next to a node that was extended.
C1_Witness ==
    \E t \in DOMAIN trees_by_thread_id :
        LET F == trees_by_thread_id[t]
        IN /\ \E p \in DOMAIN F, q \in DOMAIN F :
                /\ Len(p) = Len(q) /\ Parent(p) = Parent(q)
                /\ q[Len(q)] = p[Len(p)] + 1
                /\ F[p].fingerprint = F[q].fingerprint
                /\ F[p].end_ns # F[q].start_ns
           /\ \E r \in DOMAIN F : F[r].sample_count >= 2

NodeTimesConsistent(n) ==
    n.duration_ns = n.end_ns - n.start_ns /\ n.end_ns >= n.start_ns

\* C2: after every creation and every update each node has
\* duration_ns = end_ns - start_ns and end_ns >= start_ns, and an update
\* never moves end_ns backward.
C2_DurationInvariant ==
    [][/\ \A t \in DOMAIN trees_by_thread_id' : \A p \in DOMAIN trees_by_thread_id'[t] :
             NodeTimesConsistent(trees_by_thread_id'[t][p])
       /\ \A t \in (DOMAIN trees_by_thread_id) \cap (DOMAIN trees_by_thread_id') :
             \A p \in (DOMAIN trees_by_thread_id[t]) \cap (DOMAIN trees_by_thread_id'[t]) :
                trees_by_thread_id'[t][p].end_ns >= trees_by_thread_id[t][p].end_ns]_vars

\* A node was created and another was updated over a positive time.
C2_Witness ==
    \E t \in DOMAIN trees_by_thread_id :
        LET F == trees_by_thread_id[t]
        IN /\ \E p \in DOMAIN F : F[p].sample_count >= 2 /\ F[p].duration_ns > 1
           /\ \E p \in DOMAIN F : F[p].sample_count = 1 /\ F[p].duration_ns > 0

PassesFilter(t) == ~(IsSome(active_thread_id) /\ t # Unwrap(active_thread_id))

RECURSIVE SumRootCounts(_, _)
SumRootCounts(F, k) ==
    IF k = 0 THEN 0 ELSE F[<< k >>].sample_count + SumRootCounts(F, k - 1)

\* C3: only the first n-1 samples of a thread create or update nodes: the
\* root counts add up to the number of those samples that have a frame,
\* every node starts at one of them and none ends after the last sample.
C3_LastSampleIsSentinel ==
    (pc = "done" /\ result = "Ok") =>
        \A t \in DOMAIN samples_by_thread_id :
            LET S == samples_by_thread_id[t]
                n == Len(S)
                F == ForestOf(trees_by_thread_id, t)
            IN IF ~PassesFilter(t) THEN t \notin DOMAIN trees_by_thread_id
               ELSE /\ SumRootCounts(F, NumChildren(F, << >>)) =
                          Cardinality({i \in 1..(n - 1) : Stacks[S[i].stack_id + 1] # << >>})
                    /\ \A p \in DOMAIN F :
                          /\ F[p].end_ns <= ToNs(S[n].timestamp)
                          /\ \E i \in 1..(n - 1) : F[p].start_ns = ToNs(S[i].timestamp)

\* A forest was returned for a thread whose last sample has a stack of its
\* own, the frames of which are in no node.
C3_Witness ==
    /\ pc = "done" /\ result = "Ok"
    /\ \E t \in DOMAIN trees_by_thread_id :
          LET S == samples_by_thread_id[t]
              F == trees_by_thread_id[t]
              id == S[Len(S)].stack_id
          IN /\ Len(S) >= 3
             /\ id < Len(Stacks) /\ Stacks[id + 1] # << >>
             /\ \A k \in 1..Len(Stacks[id + 1]) : Stacks[id + 1][k] < Len(Frames)
             /\ \A p \in DOMAIN F : \A k \in 1..Len(Stacks[id + 1]) :
                   F[p].frame # Frames[Stacks[id + 1][k] + 1]

\* A sample whose stack id is not below the number of stacks; a sample whose
\* stack holds a frame index that is not below the number of frames.
BadStackId(s) == s.stack_id >= Len(Stacks)
BadFrameId(s) ==
    /\ s.stack_id < Len(Stacks)
    /\ \E k \in 1..Len(Stacks[s.stack_id + 1]) : Stacks[s.stack_id + 1][k] >= Len(Frames)
Errors == {"InvalidStackId", "InvalidFrameId"}

\* C4 as claimed: any sample with a stack id out of range gives
\* InvalidStackId and any sample whose stack has a frame index out of range
\* gives InvalidFrameId (either error when both occur).
C4_AnySampleIsValidated ==
    pc = "done" =>
        LET bad_stack == \E i \in 1..Len(samples) : BadStackId(samples[i])
            bad_frame == \E i \in 1..Len(samples) : BadFrameId(samples[i])
        IN /\ (bad_stack /\ ~bad_frame) => result = "InvalidStackId"
           /\ (bad_frame /\ ~bad_stack) => result = "InvalidFrameId"
           /\ (bad_stack /\ bad_frame) => result \in Errors

\* The samples the loops visit: all but the last of each thread that is not
\* filtered out.
Visited(t, i) == PassesFilter(t) /\ i < Len(samples_by_thread_id[t])

\* C4, amended: the result is an error exactly when a visited sample has an
\* index out of range; the error is that of the first such sample of the
\* thread it was found in, the stack id being looked at before the frames;
\* no forest is returned with an error.
C4_VisitedSamplesAreValidated ==
    pc = "done" =>
        /\ result = "Ok" <=>
              \A t \in DOMAIN samples_by_thread_id :
                 \A i \in 1..Len(samples_by_thread_id[t]) :
                    Visited(t, i) => /\ ~BadStackId(samples_by_thread_id[t][i])
                                     /\ ~BadFrameId(samples_by_thread_id[t][i])
        /\ result \in Errors =>
              /\ trees_by_thread_id = NoTrees
              /\ Visited(Unwrap(thread_id), sample_index + 1)
              /\ result = "InvalidStackId" <=> BadStackId(CurrentSample)
              /\ result = "InvalidFrameId" <=> BadFrameId(CurrentSample)
              /\ \A i \in 1..sample_index :
                    ~BadStackId(ThreadSamples[i]) /\ ~BadFrameId(ThreadSamples[i])

\* A forest was returned although the last sample of its thread names a
\* stack out of range.
C4_Witness ==
    /\ pc = "done" /\ result = "Ok"
    /\ \E t \in DOMAIN trees_by_thread_id :
          LET S == samples_by_thread_id[t]
          IN BadStackId(S[Len(S)]) \/ BadFrameId(S[Len(S)])

NodeKey(n) == << n.package, n.name >>
PathKeys(F, p) == [j \in 1..Len(p) |-> NodeKey(F[SubSeq(p, 1, j)])]

\* C10 as claimed: two nodes whose frames have the same trimmed package and
\* function name have the same fingerprint, whatever their depth, ancestors,
\* thread or sample.
C10_FingerprintOfOwnFrame ==
    \A t1 \in DOMAIN trees_by_thread_id, t2 \in DOMAIN trees_by_thread_id :
        \A p1 \in DOMAIN trees_by_thread_id[t1], p2 \in DOMAIN trees_by_thread_id[t2] :
            NodeKey(trees_by_thread_id[t1][p1]) = NodeKey(trees_by_thread_id[t2][p2])
            => trees_by_thread_id[t1][p1].fingerprint = trees_by_thread_id[t2][p2].fingerprint

\* C10, amended: the fingerprint is a function of the trimmed packages and
\* function names of the frames from the root down to the node, whatever
\* the thread or the sample.
C10_FingerprintOfPath ==
    \A t1 \in DOMAIN trees_by_thread_id, t2 \in DOMAIN trees_by_thread_id :
        \A p1 \in DOMAIN trees_by_thread_id[t1], p2 \in DOMAIN trees_by_thread_id[t2] :
            PathKeys(trees_by_thread_id[t1], p1) = PathKeys(trees_by_thread_id[t2], p2)
            => trees_by_thread_id[t1][p1].fingerprint = trees_by_thread_id[t2][p2].fingerprint

\* Two nodes below a root, from different frames and different samples,
\* with the same packages and names on their paths.
C10_Witness ==
    \E t1 \in DOMAIN trees_by_thread_id, t2 \in DOMAIN trees_by_thread_id :
        \E p1 \in DOMAIN trees_by_thread_id[t1], p2 \in DOMAIN trees_by_thread_id[t2] :
            /\ Len(p1) = 2
            /\ << t1, p1 >> # << t2, p2 >>
            /\ trees_by_thread_id[t1][p1].frame # trees_by_thread_id[t2][p2].frame
            /\ PathKeys(trees_by_thread_id[t1], p1) = PathKeys(trees_by_thread_id[t2], p2)

\* The root frame of a sample: the last entry of its stack.
HasRootFrame(x) ==
    /\ StackIdValid(x.stack_id)
    /\ Stacks[x.stack_id + 1] # << >>
    /\ StackFramesValid(Stacks[x.stack_id + 1])

RootFrameOf(x) ==
    LET stack == Stacks[x.stack_id + 1] IN Frames[stack[Len(stack)] + 1]

\* The position of the first sample of ss whose root frame is f.
FirstWithRootFrame(ss, f) ==
    CHOOSE k \in 1..Len(ss) :
        /\ HasRootFrame(ss[k]) /\ RootFrameOf(ss[k]) = f
        /\ \A j \in 1..(k - 1) : ~(HasRootFrame(ss[j]) /\ RootFrameOf(ss[j]) = f)

\* The time from the first sample with the root's frame to the last sample.
SpanFromFirst(ss, root) ==
    ToNs(ss[Len(ss)].timestamp) - ToNs(ss[FirstWithRootFrame(ss, root.frame)].timestamp)

RootsOf(F) == {p \in DOMAIN F : Len(p) = 1}

\* C14 (as stated): in the forest call_trees returns, the duration of each
\* root is the time from the first sample of its thread with the root's
\* frame to the last sample of the thread.
C14_RootDurationFromFirstSample ==
    (pc = "done" /\ result = "Ok") =>
        \A t \in DOMAIN trees_by_thread_id :
            \A p \in RootsOf(trees_by_thread_id[t]) :
                trees_by_thread_id[t][p].duration_ns =
                    SpanFromFirst(samples_by_thread_id[t], trees_by_thread_id[t][p])

\* Every sample of the thread before its last has a stack, and the same
\* root frame as the first.
SameRootFrame(ss) ==
    \A k \in 1..(Len(ss) - 1) :
        HasRootFrame(ss[k]) /\ RootFrameOf(ss[k]) = RootFrameOf(ss[1])

\* C14 (amended): when every sample of a thread before its last has a
\* stack with the same root frame, the forest call_trees returns for the
\* thread has one root, and its duration is the time from the first sample
\* of the thread to the last.
C14_RootDurationOfSameRoot ==
    (pc = "done" /\ result = "Ok") =>
        \A t \in DOMAIN trees_by_thread_id :
            SameRootFrame(samples_by_thread_id[t]) =>
                /\ RootsOf(trees_by_thread_id[t]) = {<< 1 >>}
                /\ trees_by_thread_id[t][<< 1 >>].duration_ns =
                       SpanFromFirst(samples_by_thread_id[t], trees_by_thread_id[t][<< 1 >>])
                /\ trees_by_thread_id[t][<< 1 >>].duration_ns =
                       ToNs(samples_by_thread_id[t][Len(samples_by_thread_id[t])].timestamp)
                       - ToNs(samples_by_thread_id[t][1].timestamp)

\* Four samples of a thread, the first three with different stacks on the
\* same root frame, gave one root of 3 ns.
C14_Witness ==
    /\ pc = "done" /\ result = "Ok"
    /\ \E t \in DOMAIN trees_by_thread_id :
          /\ SameRootFrame(samples_by_thread_id[t])
          /\ Len(samples_by_thread_id[t]) = 4
          /\ samples_by_thread_id[t][1].stack_id # samples_by_thread_id[t][2].stack_id
          /\ trees_by_thread_id[t][<< 1 >>].sample_count = 3
          /\ trees_by_thread_id[t][<< 1 >>].duration_ns = 3

\* ------------------------------------------------------------------------
\* Android::fix_samples_time (src/src/android/mod.rs)
\*
\* A u64 number of nanoseconds is the record [s, n] of its quotient and
\* remainder by 1_000_000_000, so that the arithmetic stays exact for the
\* values the model reaches.
\* ------------------------------------------------------------------------
NanosPerSec == 1000000000

Ns(secs, nanos) == [s |-> secs + (nanos \div NanosPerSec), n |-> nanos % NanosPerSec]
NsZero == Ns(0, 0)
NsLess(a, b) == a.s < b.s \/ (a.s = b.s /\ a.n < b.n)
NsMax(a, b) == IF NsLess(a, b) THEN b ELSE a
NsAdd(a, b) == Ns(a.s + b.s, a.n + b.n)
\* a - b; a result with s < 0 is the unsigned subtraction underflowing.
NsSub(a, b) == IF a.n >= b.n THEN [s |-> a.s - b.s, n |-> a.n - b.n]
               ELSE [s |-> a.s - b.s - 1, n |-> a.n + NanosPerSec - b.n]

\* The penalty added to the latest raw time instead of the maximum.
get_adjusted_time_from_latest(max_time_ns, latest_ns, current_ns) ==
    IF NsLess(current_ns, max_time_ns) /\ NsLess(current_ns, latest_ns)
    THEN NsAdd(latest_ns, Ns(1, 0))
    ELSE NsAdd(max_time_ns, NsSub(current_ns, latest_ns))

\* The penalty added to the time that went backward.
get_adjusted_time_penalty_on_current(max_time_ns, latest_ns, current_ns) ==
    IF NsLess(current_ns, max_time_ns) /\ NsLess(current_ns, latest_ns)
    THEN NsAdd(current_ns, Ns(1, 0))
    ELSE NsAdd(max_time_ns, NsSub(current_ns, latest_ns))

get_adjusted_time(max_time_ns, latest_ns, current_ns) ==
    IF NsLess(current_ns, max_time_ns) /\ NsLess(current_ns, latest_ns)
    THEN NsAdd(max_time_ns, Ns(1, 0))
    ELSE NsAdd(max_time_ns, NsSub(current_ns, latest_ns))

Clocks == {"Global", "Cpu", "Wall", "Dual", "None"}

\* An event is its thread id and time.monotonic.wall: None when monotonic or
\* wall is absent, else the record of the two optional fields secs and nanos.
AndroidEvent(thread, wall) == [thread_id |-> thread, wall |-> wall]
Wall(secs, nanos) == Some([secs |-> secs, nanos |-> nanos])

\* `if let (Some(secs), Some(nanos)) = (...)`
HasWallTime(event) ==
    /\ IsSome(event.wall)
    /\ IsSome(Unwrap(event.wall).secs)
    /\ IsSome(Unwrap(event.wall).nanos)

\* `(secs * 1_000_000_000) + nanos`
CurrentNs(event) ==
    Ns(Unwrap(Unwrap(event.wall).secs), Unwrap(Unwrap(event.wall).nanos))

MaxEvents == 4
EventThreads == {1, 2}
\* An absent time, whole seconds, and a time whose nanos exceed one second.
WallChoices ==
    {None, Wall(Some(0), Some(1500000000))}
    \cup {Wall(Some(secs), Some(0)) : secs \in {1, 2}}
\* The stream of test_fix_samples_time: thread 1 at 1, 2, 7, 6, 6 and 9 s,
\* then thread 2 at 1, 2, 2 and 3 s.
TestStream ==
    << AndroidEvent(1, Wall(Some(1), Some(1000))),
       AndroidEvent(1, Wall(Some(2), Some(1000))),
       AndroidEvent(1, Wall(Some(7), Some(2000))),
       AndroidEvent(1, Wall(Some(6), Some(3000))),
       AndroidEvent(1, Wall(Some(6), Some(3000))),
       AndroidEvent(1, Wall(Some(9), Some(3000))),
       AndroidEvent(2, Wall(Some(1), Some(3000))),
       AndroidEvent(2, Wall(Some(2), Some(3000))),
       AndroidEvent(2, Wall(Some(2), Some(3000))),
       AndroidEvent(2, Wall(Some(3), Some(3000))) >>

\* A stream with an event that has seconds and no nanos, at the place where
\* its thread would go backward.
PartialStream ==
    << AndroidEvent(1, Wall(Some(2), Some(0))),
       AndroidEvent(1, Wall(Some(1), None)),
       AndroidEvent(1, Wall(Some(1), Some(0))),
       AndroidEvent(1, Wall(Some(1), None)) >>

EventInputs ==
    UNION { [1..len -> {AndroidEvent(t, w) : t \in EventThreads, w \in WallChoices}] :
            len \in 1..MaxEvents }
    \cup {TestStream, PartialStream}

\* `*map.get(&k).unwrap_or(&0)`
GetOrZero(map, k) == IF k \in DOMAIN map THEN map[k] ELSE NsZero
\* The entry keeping the first value it was given.
InsertFirst(map, k, v) == IF k \in DOMAIN map THEN map ELSE Put(map, k, v)

\* `.entry(k).and_modify(|max| *max = max(*max, v)).or_insert(v)`
InsertMax(map, k, v) ==
    Put(map, k, IF k \in DOMAIN map THEN NsMax(map[k], v) ELSE v)

NoTimes == << >>

\* The calls made of an operation that is called again on its own result.
MaxCalls == 2

\* One tracker entry shared by all threads.
TrackerKeyShared(event) == 0

\* The key of the two tracker maps: the event's thread.
TrackerKey(event) == event.thread_id

\* A regression also when the time repeats.
RegressesOnEqual(current, latest) == ~NsLess(latest, current)

\* `current < *latest`
Regresses(current, latest) == NsLess(current, latest)

\* The first loop from its i-th event (counted from 1): the trackers and the
\* regression index it ends with.
RECURSIVE FindRegression(_, _, _, _)
FindRegression(evs, i, latest, max) ==
    IF i > Len(evs)
    THEN [regression_index |-> None, latest |-> latest, max |-> max]
    ELSE LET event == evs[i]
         IN IF ~HasWallTime(event)
            THEN FindRegression(evs, i + 1, latest, max)
            ELSE LET current == CurrentNs(event)
                     thread == TrackerKey(event)
                 IN IF thread \in DOMAIN latest /\ Regresses(current, latest[thread])
                    THEN [regression_index |-> Some(i - 1), latest |-> latest, max |-> max]
                    ELSE FindRegression(evs, i + 1,
                                        Put(latest, thread, current),
                                        InsertMax(max, thread, current))

FixInit ==
    /\ CallTreesIdle
    /\ DropIdle
    /\ NormIdle
    /\ CauseIdle
    /\ NameIdle
    /\ clock \in Clocks
    /\ events \in EventInputs
    /\ events_in = events
    /\ fix_pc = "start"
    /\ thread_max_time_ns = NoTimes
    /\ thread_latest_sample_time_ns = NoTimes
    /\ regression_index = None
    /\ event_index = 0
    /\ fix_calls = 0

\* The early return for the Global clock alone.
ClockSkippedGlobalOnly(c) == c = "Global"

\* `matches!(self.clock, Clock::Global | Clock::Cpu)`
ClockSkipped(c) == c \in {"Global", "Cpu"}

\* The early return for the monotonic clocks.
FixSkipClock ==
    /\ fix_pc = "start"
    /\ ClockSkipped(clock)
    /\ fix_pc' = "done"
    /\ fix_calls' = fix_calls + 1
    /\ UNCHANGED << clock, events, events_in, thread_max_time_ns,
                    thread_latest_sample_time_ns, regression_index, event_index >>
    /\ UNCHANGED notFixVars

\* The first loop, which finds no regression: the function returns.
FixNoRegression ==
    /\ fix_pc = "start"
    /\ ~ClockSkipped(clock)
    /\ LET r == FindRegression(events, 1, NoTimes, NoTimes)
       IN /\ r.regression_index = None
          /\ thread_latest_sample_time_ns' = r.latest
          /\ thread_max_time_ns' = r.max
    /\ fix_pc' = "done"
    /\ fix_calls' = fix_calls + 1
    /\ UNCHANGED << clock, events, events_in, regression_index, event_index >>
    /\ UNCHANGED notFixVars

\* The first loop, which breaks at a regression: the second loop starts there.
FixFindRegression ==
    /\ fix_pc = "start"
    /\ ~ClockSkipped(clock)
    /\ LET r == FindRegression(events, 1, NoTimes, NoTimes)
       IN /\ IsSome(r.regression_index)
          /\ regression_index' = r.regression_index
          /\ event_index' = Unwrap(r.regression_index)
          /\ thread_latest_sample_time_ns' = r.latest
          /\ thread_max_time_ns' = r.max
    /\ fix_pc' = "rewrite"
    /\ UNCHANGED << clock, events, events_in, fix_calls >>
    /\ UNCHANGED notFixVars

InRewrite == fix_pc = "rewrite" /\ event_index < Len(events)
RewriteEvent == events[event_index + 1]

\* An iteration of the second loop over an event without a wall time.
FixRewriteSkip ==
    /\ InRewrite
    /\ ~HasWallTime(RewriteEvent)
    /\ event_index' = event_index + 1
    /\ UNCHANGED << clock, events, events_in, fix_pc, thread_max_time_ns,
                    thread_latest_sample_time_ns, regression_index, fix_calls >>
    /\ UNCHANGED notFixVars

\* The latest tracker taking the adjusted time.
LatestAfterRewriteAdjusted(current, new_time) == new_time

\* `thread_latest_sample_time_ns.insert(thread_id, current)`
LatestAfterRewrite(current, new_time) == current

\* An iteration of the second loop over an event with a wall time.
FixRewrite ==
    /\ InRewrite
    /\ HasWallTime(RewriteEvent)
    /\ LET current == CurrentNs(RewriteEvent)
           thread == TrackerKey(RewriteEvent)
           max_time == GetOrZero(thread_max_time_ns, thread)
           latest_time == GetOrZero(thread_latest_sample_time_ns, thread)
           new_time == get_adjusted_time(max_time, latest_time, current)
       IN /\ thread_max_time_ns' = InsertMax(thread_max_time_ns, thread, new_time)
          /\ thread_latest_sample_time_ns' =
                Put(thread_latest_sample_time_ns, thread,
                    LatestAfterRewrite(current, new_time))
          /\ events' = [events EXCEPT ![event_index + 1].wall =
                            Wall(Some(new_time.s), Some(new_time.n))]
    /\ event_index' = event_index + 1
    /\ UNCHANGED << clock, events_in, fix_pc, regression_index, fix_calls >>
    /\ UNCHANGED notFixVars

\* The second loop ends.
FixDone ==
    /\ fix_pc = "rewrite"
    /\ ~(event_index < Len(events))
    /\ fix_pc' = "done"
    /\ fix_calls' = fix_calls + 1
    /\ UNCHANGED << clock, events, events_in, thread_max_time_ns,
                    thread_latest_sample_time_ns, regression_index, event_index >>
    /\ UNCHANGED notFixVars

\* fix_samples_time is called again on the trace it has repaired.
FixCallAgain ==
    /\ fix_pc = "done"
    /\ fix_calls \in 1..(MaxCalls - 1)
    /\ fix_pc' = "start"
    /\ events_in' = events
    /\ thread_max_time_ns' = NoTimes
    /\ thread_latest_sample_time_ns' = NoTimes
    /\ regression_index' = None
    /\ event_index' = 0
    /\ UNCHANGED << clock, events, fix_calls >>
    /\ UNCHANGED notFixVars

FixNext ==
    \/ FixCallAgain
    \/ FixSkipClock
    \/ FixNoRegression
    \/ FixFindRegression
    \/ FixRewriteSkip
    \/ FixRewrite
    \/ FixDone

FixSpec == FixInit /\ [][FixNext]_vars

\* ------------------------------------------------------------------------
\* Properties of Android::fix_samples_time
\* ------------------------------------------------------------------------
\* The wall times of thread t's events, in stream order, never go backward.
NonDecreasing(evs, t) ==
    \A i, j \in 1..Len(evs) :
        (/\ i < j
         /\ evs[i].thread_id = t /\ evs[j].thread_id = t
         /\ HasWallTime(evs[i]) /\ HasWallTime(evs[j]))
        => ~NsLess(CurrentNs(evs[j]), CurrentNs(evs[i]))

FixReturned == fix_pc = "done"

\* C5 as stated: after fix_samples_time, for every thread the wall times of
\* the thread's events, in stream order, are non-decreasing.
C5_NonDecreasingAfterFix ==
    FixReturned => \A t \in EventThreads : NonDecreasing(events, t)

\* C5: after fix_samples_time on a trace whose clock is neither Global nor
\* Cpu, for every thread the wall times of the thread's events, in stream
\* order, are non-decreasing.
C5_NonDecreasingAfterRepair ==
    (FixReturned /\ clock \notin {"Global", "Cpu"})
        => \A t \in EventThreads : NonDecreasing(events, t)

\* The repair has run on a stream where a thread went backward twice.
C5_Witness ==
    /\ FixReturned
    /\ clock = "Wall"
    /\ \E i \in 1..Len(events) : \E j \in 1..Len(events) : \E k \in 1..Len(events) :
          /\ i < j /\ j < k
          /\ events_in[i].thread_id = events_in[j].thread_id
          /\ events_in[j].thread_id = events_in[k].thread_id
          /\ HasWallTime(events_in[i]) /\ HasWallTime(events_in[j])
          /\ HasWallTime(events_in[k])
          /\ NsLess(CurrentNs(events_in[j]), CurrentNs(events_in[i]))
          /\ NsLess(CurrentNs(events_in[k]), CurrentNs(events_in[j]))

\* C6: if no thread's wall time goes backward relative to the thread's
\* previous event, fix_samples_time leaves every event unchanged.
C6_NoRegressionUnchanged ==
    (\A t \in EventThreads : NonDecreasing(events_in, t)) => events = events_in

\* The repair has returned on a stream of two interleaved threads, none of
\* which goes backward although the merged stream does, and which holds a
\* time a rewrite would renormalise.
C6_Witness ==
    /\ FixReturned
    /\ clock = "Dual"
    /\ \A t \in EventThreads : NonDecreasing(events_in, t)
    /\ \E i \in 1..Len(events) : \E j \in 1..Len(events) :
          /\ i < j
          /\ events_in[i].thread_id # events_in[j].thread_id
          /\ HasWallTime(events_in[i]) /\ HasWallTime(events_in[j])
          /\ NsLess(CurrentNs(events_in[j]), CurrentNs(events_in[i]))
    /\ \E i \in 1..Len(events) : \E j \in 1..Len(events) :
          /\ i < j
          /\ events_in[i] = events_in[j]
          /\ HasWallTime(events_in[i])
          /\ Unwrap(Unwrap(events_in[i].wall).nanos) >= NanosPerSec

\* The two events carry the same wall time, as total nanoseconds.
SameWallTime(e1, e2) ==
    IF HasWallTime(e1) /\ HasWallTime(e2) THEN CurrentNs(e1) = CurrentNs(e2)
    ELSE e1.wall = e2.wall

\* C7: every event of a thread that never goes backward keeps its wall time
\* as total nanoseconds, wherever it is in the stream, and the order of the
\* events is never changed.
C7_OtherThreadsKeepTime ==
    /\ Len(events) = Len(events_in)
    /\ \A i \in 1..Len(events) :
          /\ events[i].thread_id = events_in[i].thread_id
          /\ NonDecreasing(events_in, events_in[i].thread_id)
                => SameWallTime(events[i], events_in[i])

\* The repair has returned on a stream where a thread went backward; a
\* thread that never goes backward has an event before the regression
\* index and one after it, and the other fields of the latter were
\* rewritten although its total is the same.
C7_Witness ==
    /\ FixReturned
    /\ IsSome(regression_index)
    /\ \E i \in 1..Len(events) : \E j \in 1..Len(events) :
          /\ i - 1 < Unwrap(regression_index)
          /\ Unwrap(regression_index) < j - 1
          /\ events_in[i].thread_id = events_in[j].thread_id
          /\ events_in[i].thread_id # events_in[Unwrap(regression_index) + 1].thread_id
          /\ NonDecreasing(events_in, events_in[i].thread_id)
          /\ HasWallTime(events_in[i]) /\ HasWallTime(events_in[j])
          /\ events[j].wall # events_in[j].wall

\* A thread of the stream goes backward.
SomeThreadRegresses(evs) == \E t \in EventThreads : ~NonDecreasing(evs, t)

\* C15: under the Global and the Cpu clock no event is ever modified,
\* whatever the wall times; under each of the other clocks (Wall, Dual,
\* None) the repair is applied: once the call has returned a stream in
\* which a thread went backward has been rewritten and no thread goes
\* backward any more.
C15_ClockDecidesRepair ==
    /\ clock \in {"Global", "Cpu"} => events = events_in
    /\ (FixReturned /\ clock \in {"Wall", "Dual", "None"}) =>
          /\ \A t \in EventThreads : NonDecreasing(events, t)
          /\ SomeThreadRegresses(events_in) => events # events_in

\* The call has returned under the Cpu clock on a stream where a thread
\* goes backward.
C15_Witness ==
    /\ FixReturned
    /\ clock = "Cpu"
    /\ SomeThreadRegresses(events_in)
    /\ events = events_in

\* The event of thread t with a wall time that comes last before the i-th
\* event, or 0 when there is none.
PreviousOnThread(evs, i) ==
    LET before == {j \in 1..(i - 1) :
                      evs[j].thread_id = evs[i].thread_id /\ HasWallTime(evs[j])}
    IN IF before = {} THEN 0
       ELSE CHOOSE j \in before : \A k \in before : k <= j

\* C16: once the call has returned, for every event at or after the
\* regression index that has an earlier event on its thread, the adjusted
\* time minus the previous adjusted time of the thread is the raw time
\* minus the previous raw time when the raw time did not go backward, and 1
\* second when it did; the test stream 1, 2, 7, 6, 6, 9 s of thread 1
\* becomes 1, 2, 7, 8, 8, 11 s.
C16_AdjustedDeltas ==
    (FixReturned /\ IsSome(regression_index)) =>
        \A i \in (Unwrap(regression_index) + 1)..Len(events) :
            (HasWallTime(events_in[i]) /\ PreviousOnThread(events_in, i) # 0) =>
                LET j == PreviousOnThread(events_in, i)
                    raw == CurrentNs(events_in[i])
                    previous_raw == CurrentNs(events_in[j])
                    adjusted == CurrentNs(events[i])
                    previous_adjusted == CurrentNs(events[j])
                IN IF NsLess(raw, previous_raw)
                   THEN NsSub(adjusted, previous_adjusted) = Ns(1, 0)
                   ELSE NsSub(adjusted, previous_adjusted) = NsSub(raw, previous_raw)

\* The test stream has been repaired: thread 1 is at 1, 2, 7, 8, 8 and 11 s.
C16_Witness ==
    /\ FixReturned
    /\ events_in = TestStream
    /\ regression_index = Some(3)
    /\ [i \in 1..6 |-> CurrentNs(events[i])] =
          << Ns(1, 1000), Ns(2, 1000), Ns(7, 2000), Ns(8, 2000), Ns(8, 2000),
             Ns(11, 2000) >>

\* A step of the second loop that adjusts an event.
Rewrites == InRewrite /\ HasWallTime(RewriteEvent) /\ event_index' = event_index + 1

\* C17 (as stated): after an event's time is adjusted, the maximum and the
\* latest tracker of its thread both hold the adjusted value.
C17_BothTrackersAdjusted ==
    [][Rewrites =>
         LET thread == RewriteEvent.thread_id
             adjusted == CurrentNs(events'[event_index + 1])
         IN /\ thread_max_time_ns'[thread] = adjusted
            /\ thread_latest_sample_time_ns'[thread] = adjusted]_vars

\* C17 (amended): after an event's time is adjusted, the maximum tracker of
\* its thread holds the adjusted value and the latest tracker holds the
\* event's raw value, before the next event is processed.
C17_MaxAdjustedLatestRaw ==
    [][Rewrites =>
         LET thread == RewriteEvent.thread_id
             adjusted == CurrentNs(events'[event_index + 1])
             raw == CurrentNs(events_in[event_index + 1])
         IN /\ thread_max_time_ns'[thread] = adjusted
            /\ thread_latest_sample_time_ns'[thread] = raw]_vars

\* The second loop is past an event whose adjusted time is not its raw time:
\* the two trackers of its thread differ.
C17_Witness ==
    /\ fix_pc = "rewrite"
    /\ event_index >= 1
    /\ HasWallTime(events_in[event_index])
    /\ CurrentNs(events[event_index]) # CurrentNs(events_in[event_index])
    /\ thread_max_time_ns[events[event_index].thread_id] = CurrentNs(events[event_index])
    /\ thread_latest_sample_time_ns[events[event_index].thread_id]
          = CurrentNs(events_in[event_index])

\* ------------------------------------------------------------------------
\* FrozenFrameStats (src/src/occurrence/frame_drop.rs)
\*
\* The f64 duration of a measurement is a whole number of nanoseconds here,
\* and a percentage of it is the product truncated as `as u64` truncates.
\* ------------------------------------------------------------------------
MARGIN_PERCENT == 5
MIN_FRAME_DURATION_PERCENT == 50
START_LIMIT_PERCENT == 20
TenMillisNs == 10000000

\* (d * percent / 100) as u64
Percent(d, percent) == ((d \div 100) * percent) + (((d % 100) * percent) \div 100)

FrozenFrameStatsNew(end_ns, duration_ns) ==
    LET ten_millis_ns == TenMillisNs
        scaled == Percent(duration_ns, MARGIN_PERCENT)
        margin == IF scaled > ten_millis_ns THEN scaled ELSE ten_millis_ns
        start_ns == IF end_ns >= duration_ns + margin
                    THEN end_ns - duration_ns - margin
                    ELSE 0
    IN [ duration_ns |-> duration_ns,
         end_ns |-> end_ns + margin,
         min_duration_ns |-> Percent(duration_ns, MIN_FRAME_DURATION_PERCENT),
         start_limit_ns |-> start_ns + Percent(duration_ns, START_LIMIT_PERCENT),
         start_ns |-> start_ns ]

NodeStack(depth, n, st) == [depth |-> depth, n |-> n, st |-> st]

\* The validity test without the minimum duration.
is_node_stack_valid_any_duration(self, ns) ==
    LET has_function == IsSome(ns.n.frame.function)
                        /\ Unwrap(ns.n.frame.function) # Empty
    IN /\ has_function
       /\ ns.n.is_application
       /\ ns.n.start_ns >= self.start_ns
       /\ ns.n.end_ns <= self.end_ns
       /\ ns.n.start_ns <= self.start_limit_ns

\* The validity test without the test of the function name.
is_node_stack_valid_any_function(self, ns) ==
    /\ ns.n.is_application
    /\ ns.n.start_ns >= self.start_ns
    /\ ns.n.end_ns <= self.end_ns
    /\ ns.n.duration_ns >= self.min_duration_ns
    /\ ns.n.start_ns <= self.start_limit_ns

is_node_stack_valid(self, ns) ==
    LET has_function == IsSome(ns.n.frame.function)
                        /\ Unwrap(ns.n.frame.function) # Empty
    IN /\ has_function
       /\ ns.n.is_application
       /\ ns.n.start_ns >= self.start_ns
       /\ ns.n.end_ns <= self.end_ns
       /\ ns.n.duration_ns >= self.min_duration_ns
       /\ ns.n.start_ns <= self.start_limit_ns

\* A later child's cause replaces the kept one only when it is longer.
SupersedesWhenLonger(cause_stack, longest) ==
    cause_stack.n.duration_ns > longest.n.duration_ns

\* The test under which a child's cause replaces the one kept so far.
Supersedes(cause_stack, longest) ==
    \/ cause_stack.n.duration_ns > longest.n.duration_ns
    \/ (/\ cause_stack.n.duration_ns = longest.n.duration_ns
        /\ cause_stack.depth > longest.depth)

\* The test under which the downstream cause is returned rather than the
\* current node.
DownstreamWins(longest, current) ==
    longest.n.duration_ns >= current.n.duration_ns

\* The node put in the place of the last one of the trace.
PushNodeOverLast(st, node) ==
    IF st = << >> THEN << node >> ELSE [st EXCEPT ![Len(st)] = node]

\* `st.push(n.clone())`; the trace handed to the children is popped again
\* before the call returns.
PushNode(st, node) == Append(st, node)

\* find_frame_drop_cause_frame on the node at path n of the tree, and the
\* loop over that node's children from the j-th on.
RECURSIVE find_frame_drop_cause_frame(_, _, _, _, _)
RECURSIVE LongestOfChildren(_, _, _, _, _, _, _)
LongestOfChildren(self, tree, n, j, st, depth, longest) ==
    IF j > NumChildren(tree, n) THEN longest
    ELSE LET found == find_frame_drop_cause_frame(self, tree, n \o << j >>, st, depth + 1)
             kept == IF found = None THEN longest
                     ELSE IF longest = None THEN found
                     ELSE IF Supersedes(Unwrap(found), Unwrap(longest)) THEN found
                     ELSE longest
         IN LongestOfChildren(self, tree, n, j + 1, st, depth, kept)

find_frame_drop_cause_frame(self, tree, n, st, depth) ==
    LET pushed == PushNode(st, tree[n])
        longest == LongestOfChildren(self, tree, n, 1, pushed, depth, None)
        ns == NodeStack(depth, tree[n], << >>)
        current == IF is_node_stack_valid(self, ns) THEN Some(ns) ELSE None
        current_with_trace == Some(NodeStack(depth, tree[n], pushed))
    IN IF longest = None /\ current = None THEN None
       ELSE IF longest = None THEN current_with_trace
       ELSE IF current = None THEN longest
       ELSE IF DownstreamWins(Unwrap(longest), Unwrap(current)) THEN longest
       ELSE current_with_trace

\* The input of the search: a measurement value and a tree of nodes.
Millis(n) == n * 1000000

MeasurementValue(elapsed_since_start_ns, value) ==
    [elapsed_since_start_ns |-> elapsed_since_start_ns, value |-> value]

\* A frame frozen for 20 ms that ends 40 ms in; one ending too early for its
\* window to start above 0; one long enough for the margin to be 5%.
Measurements ==
    { MeasurementValue(Millis(40), Millis(20)),
      MeasurementValue(Millis(20), Millis(20)),
      MeasurementValue(Millis(500), Millis(400)) }

DropNode(function, in_app, start_ms, end_ms) ==
    NodeFromFrame(Frame(function, None, None, Some(in_app)),
                  Millis(start_ms), Millis(end_ms), 0)

\* The nodes the trees are made of: for the first window three candidates
\* of 40, 36 and 10 ms, a node without a function and one too short; a
\* candidate of the second window.
TreeNodes ==
    { DropNode(Some(Str_a), TRUE, 10, 50),
      DropNode(Some(Str_a), TRUE, 14, 50),
      DropNode(Some(Str_a), TRUE, 10, 20),
      DropNode(None, TRUE, 10, 50),
      DropNode(Some(Str_a), TRUE, 10, 19),
      DropNode(Some(Str_a), TRUE, 0, 30) }

\* Every shape of a tree of at most four nodes.
TreeShapes ==
    { {<<1>>},
      {<<1>>, <<1, 1>>},
      {<<1>>, <<1, 1>>, <<1, 2>>},
      {<<1>>, <<1, 1>>, <<1, 1, 1>>},
      {<<1>>, <<1, 1>>, <<1, 2>>, <<1, 3>>},
      {<<1>>, <<1, 1>>, <<1, 2>>, <<1, 1, 1>>},
      {<<1>>, <<1, 1>>, <<1, 2>>, <<1, 2, 1>>},
      {<<1>>, <<1, 1>>, <<1, 1, 1>>, <<1, 1, 2>>},
      {<<1>>, <<1, 1>>, <<1, 1, 1>>, <<1, 1, 1, 1>>} }

\* The times, in ms, around the bounds of the three windows.
NodeTimes ==
    { <<10, 50>>, <<9, 50>>, <<14, 50>>, <<15, 50>>, <<10, 51>>, <<10, 20>>,
      <<10, 19>>, <<0, 30>>, <<4, 30>>, <<5, 30>>, <<80, 280>>, <<80, 279>>,
      <<160, 520>>, <<161, 520>>, <<160, 521>>, <<79, 300>> }

\* A single node of every kind.
SingleNodes ==
    { DropNode(function, in_app, times[1], times[2]) :
        function \in {None, Some(Empty), Some(Str_a)},
        in_app \in BOOLEAN,
        times \in NodeTimes }

TreeInputs ==
    UNION { [shape -> TreeNodes] : shape \in TreeShapes }
    \cup [{<<1>>} -> SingleNodes]

DropInit ==
    /\ CallTreesIdle
    /\ FixIdle
    /\ NormIdle
    /\ CauseIdle
    /\ NameIdle
    /\ call_tree \in TreeInputs
    /\ measurement \in Measurements
    /\ stats = << >>
    /\ cause = << >>
    /\ drop_pc = "start"

\* `FrozenFrameStats::new(mv.elapsed_since_start_ns, mv.value)`
DropNewStats ==
    /\ drop_pc = "start"
    /\ stats' = FrozenFrameStatsNew(measurement.elapsed_since_start_ns, measurement.value)
    /\ drop_pc' = "search"
    /\ UNCHANGED << call_tree, measurement, cause >>
    /\ UNCHANGED notDropVars

\* `stats.find_frame_drop_cause_frame(root, &mut st, 0)`
DropFindCause ==
    /\ drop_pc = "search"
    /\ cause' = find_frame_drop_cause_frame(stats, call_tree, <<1>>, << >>, 0)
    /\ drop_pc' = "done"
    /\ UNCHANGED << call_tree, measurement, stats >>
    /\ UNCHANGED notDropVars

DropNext ==
    \/ DropNewStats
    \/ DropFindCause

DropSpec == DropInit /\ [][DropNext]_vars

\* ------------------------------------------------------------------------
\* Properties of FrozenFrameStats
\* ------------------------------------------------------------------------
HasStats == drop_pc \in {"search", "done"}
SearchReturned == drop_pc = "done"

\* The search window as the measurement defines it.
WindowMargin ==
    LET five_percent == measurement.value \div 20
    IN IF five_percent > Millis(10) THEN five_percent ELSE Millis(10)
WindowEnd == measurement.elapsed_since_start_ns + WindowMargin
MinValidDuration == measurement.value \div 2
WindowStart ==
    IF measurement.elapsed_since_start_ns - measurement.value - WindowMargin < 0
    THEN 0
    ELSE measurement.elapsed_since_start_ns - measurement.value - WindowMargin
StartLimit == WindowStart + (measurement.value \div 5)

\* The node is a valid candidate of the window.
ValidCandidate(node) ==
    /\ node.frame.function # None
    /\ node.frame.function # Some(Empty)
    /\ node.is_application
    /\ WindowStart <= node.start_ns /\ node.start_ns <= StartLimit
    /\ node.end_ns <= WindowEnd
    /\ node.duration_ns >= MinValidDuration

\* What is_node_stack_valid returns for the node at path p.
ReturnsValid(p) ==
    is_node_stack_valid(stats, NodeStack(Len(p) - 1, call_tree[p], << >>))

\* C9: is_node_stack_valid is true iff the node has a non-empty function
\* name, is application code, starts within [window_start, start_limit],
\* ends by window_end and lasts at least min_valid_duration; a node shorter
\* than min_valid_duration is rejected.
C9_ValidIffConjunction ==
    HasStats =>
        \A p \in DOMAIN call_tree :
            /\ ReturnsValid(p) <=> ValidCandidate(call_tree[p])
            /\ call_tree[p].duration_ns < MinValidDuration => ~ReturnsValid(p)

\* A node is rejected for being too short and for nothing else.
C9_Witness ==
    /\ HasStats
    /\ \E p \in DOMAIN call_tree :
          LET node == call_tree[p]
          IN /\ ~ReturnsValid(p)
             /\ node.duration_ns < MinValidDuration
             /\ node.frame.function = Some(Str_a)
             /\ node.is_application
             /\ WindowStart <= node.start_ns /\ node.start_ns <= StartLimit
             /\ node.end_ns <= WindowEnd

\* The paths of the valid candidates of the tree.
Candidates == {p \in DOMAIN call_tree : ReturnsValid(p)}

\* C8: find_frame_drop_cause_frame returns None iff the tree has no valid
\* candidate; otherwise it returns a valid candidate of the greatest
\* duration and, among the candidates of that duration, of the greatest
\* depth.
C8_LongestThenDeepest ==
    SearchReturned =>
        /\ cause = None <=> Candidates = {}
        /\ cause # None =>
              \E p \in Candidates :
                  /\ Unwrap(cause).n = call_tree[p]
                  /\ Unwrap(cause).depth = Len(p) - 1
                  /\ \A q \in Candidates :
                        /\ call_tree[q].duration_ns <= call_tree[p].duration_ns
                        /\ call_tree[q].duration_ns = call_tree[p].duration_ns
                              => Len(q) <= Len(p)

\* The search returned a candidate found under the second child although
\* the first child and the root are candidates of the same duration.
C8_Witness ==
    /\ SearchReturned
    /\ cause # None
    /\ Unwrap(cause).depth = 2
    /\ {<<1>>, <<1, 1>>, <<1, 2, 1>>} \subseteq Candidates
    /\ call_tree[<<1>>].duration_ns = Unwrap(cause).n.duration_ns
    /\ call_tree[<<1, 1>>].duration_ns = Unwrap(cause).n.duration_ns
    /\ <<1, 2>> \notin Candidates

\* The trace is that of the nodes along the path p of the tree.
TraceAlong(st, p) ==
    /\ Len(st) = Len(p)
    /\ \A k \in 1..Len(p) : st[k] = call_tree[SubSeq(p, 1, k)]

\* C20: the stack trace of a returned candidate is the path from the root
\* to the chosen node: it has depth + 1 elements, the first is the root
\* given to the top-level call, the last is the chosen node, and each
\* element is a child of the one before it.
C20_TraceIsPathFromRoot ==
    (SearchReturned /\ cause # None) =>
        LET found == Unwrap(cause)
        IN /\ Len(found.st) = found.depth + 1
           /\ found.st[1] = call_tree[<<1>>]
           /\ found.st[Len(found.st)] = found.n
           /\ \E p \in DOMAIN call_tree :
                 /\ p[1] = 1
                 /\ Len(p) = found.depth + 1
                 /\ TraceAlong(found.st, p)

\* The candidate returned is a second child's child, below nodes that
\* differ from its siblings.
C20_Witness ==
    /\ SearchReturned
    /\ cause # None
    /\ Unwrap(cause).depth = 2
    /\ {<<1, 1>>, <<1, 2, 1>>} \subseteq DOMAIN call_tree
    /\ TraceAlong(Unwrap(cause).st, <<1, 2, 1>>)
    /\ call_tree[<<1, 1>>] # call_tree[<<1, 2>>]
    /\ call_tree[<<1, 2>>] # call_tree[<<1>>]
    /\ call_tree[<<1, 2, 1>>] # call_tree[<<1, 2>>]

\* ------------------------------------------------------------------------
\* Frame::normalize (src/src/frame/mod.rs)
\* ------------------------------------------------------------------------
FrameInputs ==
    LET
        In_bracket_native == << 91, 110, 97, 116, 105, 118, 101, 32, 99, 111, 100, 101, 93 >>   \* "[native code]"
        In_app_bundle == << 47, 118, 97, 114, 47, 99, 111, 110, 116, 97, 105, 110, 101, 114, 115, 47, 66, 117, 110, 100, 108, 101, 47, 65, 112, 112 >>   \* "/var/containers/Bundle/App"
        In_node_modules_path == << 47, 97, 112, 112, 47, 110, 111, 100, 101, 95, 109, 111, 100, 117, 108, 101, 115, 47, 120, 46, 106, 115 >>   \* "/app/node_modules/x.js"
        In_node_builtin == << 110, 111, 100, 101, 58, 102, 115 >>   \* "node:fs"
        In_vendor_path == << 47, 97, 112, 112, 47, 118, 101, 110, 100, 111, 114, 47, 120, 46, 112, 104, 112 >>   \* "/app/vendor/x.php"
        In_usr_local_path == << 47, 117, 115, 114, 47, 108, 111, 99, 97, 108, 47, 108, 105, 98, 47, 120, 46, 112, 121 >>   \* "/usr/local/lib/x.py"
        In_stdlib_module == << 109, 117, 108, 116, 105, 112, 114, 111, 99, 101, 115, 115, 105, 110, 103, 46, 112, 111, 111, 108 >>   \* "multiprocessing.pool"
        In_sdk_module == << 115, 101, 110, 116, 114, 121, 95, 115, 100, 107, 46, 112, 114, 111, 102, 105, 108, 101, 114 >>   \* "sentry_sdk.profiler"
        In_rustc_package == << 47, 114, 117, 115, 116, 99, 47, 120, 47, 108, 105, 98, 114, 97, 114, 121, 47, 99, 111, 114, 101 >>   \* "/rustc/x/library/core"
        In_std_package == << 47, 120, 47, 108, 105, 98, 114, 97, 114, 121, 47, 115, 116, 100, 47, 115, 114, 99, 47, 105, 111 >>   \* "/x/library/std/src/io"
        In_dyld_package == << 47, 117, 115, 114, 47, 108, 105, 98, 47, 115, 121, 115, 116, 101, 109, 47, 108, 105, 98, 100, 121, 108, 100 >>   \* "/usr/lib/system/libdyld"
        In_rustup_package == << 47, 117, 115, 114, 47, 108, 111, 99, 97, 108, 47, 114, 117, 115, 116, 117, 112, 47, 120 >>   \* "/usr/local/rustup/x"
        In_cargo_package == << 47, 117, 115, 114, 47, 108, 111, 99, 97, 108, 47, 99, 97, 114, 103, 111, 47, 120 >>   \* "/usr/local/cargo/x"
        In_app_package == << 47, 115, 114, 99, 47, 97, 112, 112 >>   \* "/src/app"
        In_app_module == << 97, 112, 112, 46, 117, 116, 105, 108, 115 >>   \* "app.utils"
        In_app_path == << 47, 97, 112, 112, 47, 120 >>   \* "/app/x"
        In_missing == << 109, 105, 115, 115, 105, 110, 103 >>   \* "missing"
        \* The function, module, package and path of the frames normalized: each
        \* rule has a frame it calls system and one it calls application.
        FrameContents ==
            { << None, None, None, None >>,
              << Some(Literals.main), None, Some(In_app_bundle), None >>,
              << Some(Literals.UIApplicationMain), None, Some(In_app_bundle), None >>,
              << Some(Literals.main), None, Some(In_app_package), None >>,
              << Some(Str_a), None, Some(In_app_bundle), None >>,
              << Some(Str_a), Some(Literals.Sentry), Some(In_app_bundle), None >>,
              << Some(In_bracket_native), None, None, None >>,
              << Some(Str_a), None, None, Some(In_node_modules_path) >>,
              << Some(Str_a), None, None, Some(In_node_builtin) >>,
              << None, None, None, Some(In_vendor_path) >>,
              << None, Some(In_app_module), None, Some(In_usr_local_path) >>,
              << None, Some(In_stdlib_module), None, None >>,
              << None, Some(In_sdk_module), None, None >>,
              << Some(Str_a), None, Some(In_rustc_package), None >>,
              << Some(Str_a), None, Some(In_std_package), None >>,
              << Some(Str_a), None, Some(In_dyld_package), None >>,
              << Some(Str_a), None, Some(In_rustup_package), None >>,
              << Some(Str_a), None, Some(In_cargo_package), None >>,
              << Some(Str_a), Some(In_app_module), Some(In_app_package), Some(In_app_path) >> }
        StatusChoices == {None, Some(Literals.symbolicated)}
        DataChoices == {None, Some(None), Some(Some(Empty)), Some(Some(Literals.symbolicated)),
                        Some(Some(In_missing))}
    IN
    { FrameOf(c[1], in_app, c[2], c[3], c[4], status, data, platform) :
        c \in FrameContents,
        in_app \in {None, Some(TRUE), Some(FALSE)},
        status \in StatusChoices,
        data \in DataChoices,
        platform \in {None} \cup {Some(x) : x \in Platforms} }

NormInit ==
    /\ CallTreesIdle
    /\ FixIdle
    /\ DropIdle
    /\ CauseIdle
    /\ NameIdle
    /\ norm_frame \in FrameInputs
    /\ norm_frame_in = norm_frame
    /\ norm_platform \in Platforms
    /\ norm_step = 1
    /\ norm_calls = 0

\* normalize with the status set last.
NormalizeStepsStatusLast == << "set_platform", "set_in_app", "set_status" >>

\* The statements of normalize, in order.
NormalizeSteps == << "set_status", "set_platform", "set_in_app" >>

AtStep(name) ==
    /\ norm_step \in 1..Len(NormalizeSteps)
    /\ NormalizeSteps[norm_step] = name
    /\ norm_step' = norm_step + 1

NormSetStatus ==
    /\ AtStep("set_status")
    /\ norm_frame' = set_status(norm_frame)
    /\ UNCHANGED << norm_frame_in, norm_platform, norm_calls >>
    /\ UNCHANGED notNormVars

NormSetPlatform ==
    /\ AtStep("set_platform")
    /\ norm_frame' = set_platform(norm_frame, norm_platform)
    /\ UNCHANGED << norm_frame_in, norm_platform, norm_calls >>
    /\ UNCHANGED notNormVars

NormSetInApp ==
    /\ AtStep("set_in_app")
    /\ norm_frame' = set_in_app(norm_frame, norm_platform)
    /\ UNCHANGED << norm_frame_in, norm_platform, norm_calls >>
    /\ UNCHANGED notNormVars

\* normalize returns.
NormReturn ==
    /\ norm_step = Len(NormalizeSteps) + 1
    /\ norm_step' = 0
    /\ norm_calls' = norm_calls + 1
    /\ UNCHANGED << norm_frame, norm_frame_in, norm_platform >>
    /\ UNCHANGED notNormVars

\* normalize is called again on the same frame with the same platform.
NormCallAgain ==
    /\ norm_step = 0
    /\ norm_calls \in 1..(MaxCalls - 1)
    /\ norm_step' = 1
    /\ UNCHANGED << norm_frame, norm_frame_in, norm_platform, norm_calls >>
    /\ UNCHANGED notNormVars

NormNext ==
    \/ NormSetStatus
    \/ NormSetPlatform
    \/ NormSetInApp
    \/ NormReturn
    \/ NormCallAgain

NormSpec == NormInit /\ [][NormNext]_vars

\* ------------------------------------------------------------------------
\* Properties of Frame::normalize
\* ------------------------------------------------------------------------
NormReturned == norm_step = 0 /\ norm_calls >= 1

\* C11: normalize is idempotent: once it has been applied, applying it
\* again with the same platform leaves status, platform and in_app as they
\* are, whether in_app is kept as declared or computed by rule.
C11_NormalizeIdempotent ==
    [][norm_calls >= 1 =>
        /\ norm_frame'.status = norm_frame.status
        /\ norm_frame'.platform = norm_frame.platform
        /\ norm_frame'.in_app = norm_frame.in_app]_vars

\* A second call has returned on a Cocoa frame named main embedded in
\* another platform's profile, whose in_app was declared true and whose
\* status the first call has set: the rule is evaluated by both calls.
C11_Witness ==
    /\ norm_step = 0
    /\ norm_calls = 2
    /\ norm_frame_in.platform = Some("Cocoa")
    /\ norm_platform = "JavaScript"
    /\ norm_frame_in.in_app = Some(TRUE)
    /\ norm_frame_in.function = Some(Literals.main)
    /\ norm_frame_in.status = None
    /\ norm_frame.status = Some(Literals.symbolicated)
    /\ norm_frame.in_app = Some(FALSE)

\* The platform tag of the frame: its own, or p when it had none.
PlatformTag ==
    IF IsSome(norm_frame_in.platform) THEN Unwrap(norm_frame_in.platform)
    ELSE norm_platform

\* What the rule of the platform tag says of the frame.
RuleOfTag ==
    CASE PlatformTag = "Node" -> is_node_application_frame(norm_frame)
      [] PlatformTag = "JavaScript" -> is_javascript_application_frame(norm_frame)
      [] PlatformTag = "Cocoa" -> is_cocoa_application_frame(norm_frame)
      [] PlatformTag = "Rust" -> is_rust_application_frame(norm_frame)
      [] PlatformTag = "Python" -> is_python_application_frame(norm_frame)
      [] PlatformTag = "Php" -> is_php_application_frame(norm_frame)
      [] PlatformTag \in {"Android", "Java"} -> FALSE

\* C12: after normalize(p), a declared in_app is kept when the platform tag
\* equals p; otherwise in_app is the result of the rule of the platform
\* tag, false for a platform without a rule; in_app is never unset.
C12_InAppKeptOrByRule ==
    NormReturned =>
        /\ IsSome(norm_frame.in_app)
        /\ (IsSome(norm_frame_in.in_app) /\ PlatformTag = norm_platform)
              => norm_frame.in_app = norm_frame_in.in_app
        /\ ~(IsSome(norm_frame_in.in_app) /\ PlatformTag = norm_platform)
              => norm_frame.in_app = Some(RuleOfTag)

\* normalize has returned on an Android frame embedded in another
\* platform's profile: its declared in_app of true was overwritten.
C12_Witness ==
    /\ NormReturned
    /\ norm_frame_in.platform = Some("Android")
    /\ norm_platform = "Cocoa"
    /\ norm_frame_in.in_app = Some(TRUE)
    /\ norm_frame.in_app = Some(FALSE)

\* ------------------------------------------------------------------------
\* find_frame_drop_cause (src/src/occurrence/frame_drop.rs)
\* ------------------------------------------------------------------------
UNKNOWN_FRAMES_IN_THE_STACK_THRESHOLD == 80

\* Node::to_frame: the node's frame, its data (when it has one) carrying
\* the frame's status.
to_frame(node) ==
    LET f == node.frame
    IN IF "data" \in DOMAIN f /\ IsSome(f.data)
       THEN [f EXCEPT !.data = Some(f.status)]
       ELSE f

\* `frame_node.frame.function.as_ref().is_none_or(|f| f.is_empty())`
UnknownFrame(frame_node) ==
    frame_node.frame.function = None \/ Unwrap(frame_node.frame.function) = Empty

\* unknown_frames_count after the loop over cause.st
UnknownFramesCount(st) == Cardinality({k \in 1..Len(st) : UnknownFrame(st[k])})

\* The filter rejecting only a trace made of unknown frames alone.
TooManyUnknownFramesWhenAll(st) == UnknownFramesCount(st) >= Len(st)

\* `unknown_frames_count >= stack_trace.len() as f64 * THRESHOLD`
TooManyUnknownFrames(st) ==
    UnknownFramesCount(st) * 100 >= Len(st) * UNKNOWN_FRAMES_IN_THE_STACK_THRESHOLD

\* The NodeInfo the occurrence is made of.
NodeInfo(found) ==
    [category |-> "frame_drop",
     node |-> found.n,
     stack_trace |-> [k \in 1..Len(found.st) |-> to_frame(found.st[k])]]

\* The input.  The forest of the active thread is one that a builder of
\* call trees can give: the roots follow one another in time and a child
\* lies within its parent.  It has no root, one root, or two; the first
\* root is a chain of up to MaxChain nodes over one span of time, the
\* second a single node.
MaxChain == 5
MaxValues == 2

ForestInputs ==
    LET ChainPath(k) == [i \in 1..k |-> 1]
        \* The functions of the nodes of a chain, from the root down: a
        \* single node with or without a function, or ancestors that each
        \* have a function or not above a node with a function.
        ChainFunctions ==
            { << Some(Str_a) >>, << None >> }
            \cup UNION { { Append(ancestors, Some(Str_a)) :
                             ancestors \in [1..(len - 1) -> {None, Some(Str_a)}]
                                           \cup {[k \in 1..(len - 1) |-> Some(Empty)]} } :
                         len \in 2..MaxChain }
        \* The spans, in ms, of a first root alone, and of a first and a
        \* second root.
        RootSpans == { <<10, 10>>, <<10, 20>>, <<10, 50>>, <<0, 30>> }
        RootSpanPairs ==
            { << <<10, 10>>, <<10, 20>> >>,
              << <<10, 20>>, <<20, 50>> >>,
              << <<10, 50>>, <<50, 60>> >> }
        ChainForest(functions, span) ==
            [p \in {ChainPath(k) : k \in 1..Len(functions)} |->
                DropNode(functions[Len(p)], TRUE, span[1], span[2])]
    IN {EmptyForest}
       \cup { ChainForest(functions, span) :
                functions \in ChainFunctions, span \in RootSpans }
       \cup { Put(ChainForest(functions, spans[1]), << 2 >>,
                  DropNode(function2, TRUE, spans[2][1], spans[2][2])) :
                functions \in ChainFunctions,
                spans \in RootSpanPairs,
                function2 \in {None, Some(Str_a)} }

\* The forest tried when the active thread has no call trees.
FlatForests == { [p \in {<< 1 >>} |-> DropNode(Some(Str_a), TRUE, 10, 50)] }

\* profile.get_measurements(): None, or the map from names to series.  The
\* values of a series are frozen frames of 20 ms that end 40 ms and 20 ms
\* in, and one of no duration that ends 20 ms in.
MeasurementInputs ==
    LET Values == { MeasurementValue(Millis(40), Millis(20)),
                    MeasurementValue(Millis(20), Millis(20)),
                    MeasurementValue(Millis(20), 0) }
        ValueSeqs == UNION { [1..n -> Values] : n \in 0..MaxValues }
    IN {None, Some(<< >>)}
       \cup { Some([name \in {"slow_frame_renders"} |-> [values |-> << v >>]]) :
                v \in Measurements }
       \cup { Some([name \in {"frozen_frame_renders"} |-> [values |-> vs]]) :
                vs \in ValueSeqs }

\* An occurrence found by another detector.
OtherOccurrence == [category |-> "other", node |-> << >>, stack_trace |-> << >>]

CauseInit ==
    /\ CallTreesIdle
    /\ FixIdle
    /\ DropIdle
    /\ NormIdle
    /\ NameIdle
    /\ measurements \in MeasurementInputs
    /\ transaction_thread_id \in {1, 2}
    /\ call_trees_per_thread_id \in {[t \in {1} |-> f] : f \in ForestInputs}
    /\ transaction_thread_id = 2 =>
          call_trees_per_thread_id \in {[t \in {1} |-> f] : f \in FlatForests}
    /\ occurrences \in {<< >>, << OtherOccurrence >>}
    /\ occurrences_in = occurrences
    /\ origins = << >>
    /\ cause_pc = "start"
    /\ mv_index = 0
    /\ root_index = 0

\* `super::new_occurrence(profile, node_info)`: the occurrence carries the
\* category, the cause node and the stack trace of the node info.
new_occurrence(node_info) ==
    [category |-> node_info.category,
     node |-> node_info.node,
     stack_trace |-> node_info.stack_trace]

HasFrameDrops ==
    IsSome(measurements) /\ "frozen_frame_renders" \in DOMAIN Unwrap(measurements)

\* `&frame_drops.values`
FrameDropValues == Unwrap(measurements)["frozen_frame_renders"].values

HasCallTrees == transaction_thread_id \in DOMAIN call_trees_per_thread_id

\* `call_trees`: the roots of the active thread, <<1>>, <<2>>, ...
ActiveForest == call_trees_per_thread_id[transaction_thread_id]

NumRoots == Cardinality({p \in DOMAIN ActiveForest : Len(p) = 1})

\* `stats` of the v-th measurement value
CauseStatsAt(v) ==
    FrozenFrameStatsNew(FrameDropValues[v].elapsed_since_start_ns,
                        FrameDropValues[v].value)

\* `stats.find_frame_drop_cause_frame(root, &mut st, 0)` on the i-th root,
\* for the v-th measurement value
RootCauseAt(v, i) ==
    find_frame_drop_cause_frame(CauseStatsAt(v), ActiveForest, << i >>, << >>, 0)

\* The same for the measurement value being processed.
RootCause(i) == RootCauseAt(mv_index, i)

CauseUnchangedInput ==
    UNCHANGED << measurements, transaction_thread_id, call_trees_per_thread_id,
                 occurrences_in >>

\* `let Some(measurements) = profile.get_measurements() else { return; }`
CauseNoMeasurements ==
    /\ cause_pc = "start"
    /\ measurements = None
    /\ cause_pc' = "done"
    /\ UNCHANGED << occurrences, origins, mv_index, root_index >>
    /\ CauseUnchangedInput
    /\ UNCHANGED notCauseVars

\* `let Some(frame_drops) = measurements.get("frozen_frame_renders") else { return; }`
CauseNoSeries ==
    /\ cause_pc = "start"
    /\ measurements # None
    /\ ~HasFrameDrops
    /\ cause_pc' = "done"
    /\ UNCHANGED << occurrences, origins, mv_index, root_index >>
    /\ CauseUnchangedInput
    /\ UNCHANGED notCauseVars

\* `let Some(call_trees) = call_trees_per_thread_id.get(&active_thread_id) else { return; }`
CauseNoCallTrees ==
    /\ cause_pc = "start"
    /\ HasFrameDrops
    /\ ~HasCallTrees
    /\ cause_pc' = "done"
    /\ UNCHANGED << occurrences, origins, mv_index, root_index >>
    /\ CauseUnchangedInput
    /\ UNCHANGED notCauseVars

\* Entering `for mv in &frame_drops.values`
CauseBegin ==
    /\ cause_pc = "start"
    /\ HasFrameDrops
    /\ HasCallTrees
    /\ cause_pc' = "values"
    /\ UNCHANGED << occurrences, origins, mv_index, root_index >>
    /\ CauseUnchangedInput
    /\ UNCHANGED notCauseVars

\* The next measurement value: its stats, and entering `for root in call_trees`
CauseValueStart ==
    /\ cause_pc = "values"
    /\ mv_index < Len(FrameDropValues)
    /\ mv_index' = mv_index + 1
    /\ root_index' = 0
    /\ cause_pc' = "roots"
    /\ UNCHANGED << occurrences, origins >>
    /\ CauseUnchangedInput
    /\ UNCHANGED notCauseVars

\* The next root has no cause: the `if let Some(cause)` is not entered.
CauseRootNone ==
    /\ cause_pc = "roots"
    /\ root_index < NumRoots
    /\ RootCause(root_index + 1) = None
    /\ root_index' = root_index + 1
    /\ UNCHANGED << occurrences, origins, cause_pc, mv_index >>
    /\ CauseUnchangedInput
    /\ UNCHANGED notCauseVars

\* Leaving the loop over the roots after a rejected cause.
AfterRejectNextValue == "values"

\* The `continue` after a rejected cause: on to the next root.
AfterReject == "roots"

\* The next root has a cause with too many unknown frames: `continue`.
CauseRootRejected ==
    /\ cause_pc = "roots"
    /\ root_index < NumRoots
    /\ RootCause(root_index + 1) # None
    /\ TooManyUnknownFrames(Unwrap(RootCause(root_index + 1)).st)
    /\ root_index' = root_index + 1
    /\ cause_pc' = AfterReject
    /\ UNCHANGED << occurrences, origins, mv_index >>
    /\ CauseUnchangedInput
    /\ UNCHANGED notCauseVars

\* Going on with the next root after a push.
AfterPushNextRoot == "roots"

\* The `break` after the push: on to the next measurement value.
AfterPush == "values"

\* The next root has a cause that passes the filter: push and `break`.
CauseRootEmit ==
    /\ cause_pc = "roots"
    /\ root_index < NumRoots
    /\ RootCause(root_index + 1) # None
    /\ ~TooManyUnknownFrames(Unwrap(RootCause(root_index + 1)).st)
    /\ LET node_info == NodeInfo(Unwrap(RootCause(root_index + 1)))
       IN /\ occurrences' = Append(occurrences, new_occurrence(node_info))
          /\ origins' = Append(origins, [mv |-> mv_index, root |-> root_index + 1,
                                         node_info |-> node_info])
    /\ root_index' = root_index + 1
    /\ cause_pc' = AfterPush
    /\ UNCHANGED mv_index
    /\ CauseUnchangedInput
    /\ UNCHANGED notCauseVars

\* `for root in call_trees` ends without a break.
CauseRootsEnd ==
    /\ cause_pc = "roots"
    /\ root_index = NumRoots
    /\ cause_pc' = "values"
    /\ UNCHANGED << occurrences, origins, mv_index, root_index >>
    /\ CauseUnchangedInput
    /\ UNCHANGED notCauseVars

\* `for mv in &frame_drops.values` ends: the function returns.
CauseReturn ==
    /\ cause_pc = "values"
    /\ mv_index = Len(FrameDropValues)
    /\ cause_pc' = "done"
    /\ UNCHANGED << occurrences, origins, mv_index, root_index >>
    /\ CauseUnchangedInput
    /\ UNCHANGED notCauseVars

CauseNext ==
    \/ CauseNoMeasurements
    \/ CauseNoSeries
    \/ CauseNoCallTrees
    \/ CauseBegin
    \/ CauseValueStart
    \/ CauseRootNone
    \/ CauseRootRejected
    \/ CauseRootEmit
    \/ CauseRootsEnd
    \/ CauseReturn

CauseSpec == CauseInit /\ [][CauseNext]_vars

CauseReturned == cause_pc = "done"

\* The occurrences appended by the call.
Appended == SubSeq(occurrences, Len(occurrences_in) + 1, Len(occurrences))

NothingToDo ==
    \/ measurements = None
    \/ ~HasFrameDrops
    \/ FrameDropValues = << >>
    \/ ~HasCallTrees

\* A step of the function is defined: one of the guards of its actions holds.
CauseCanStep ==
    \/ /\ cause_pc = "start"
       /\ \/ measurements = None
          \/ measurements # None /\ ~HasFrameDrops
          \/ HasFrameDrops /\ ~HasCallTrees
          \/ HasFrameDrops /\ HasCallTrees
    \/ /\ cause_pc = "values"
       /\ mv_index < Len(FrameDropValues) \/ mv_index = Len(FrameDropValues)
    \/ /\ cause_pc = "roots"
       /\ root_index < NumRoots \/ root_index = NumRoots

\* C13: find_frame_drop_cause always returns normally; it leaves the list
\* of occurrences as it was when there are no measurements, no
\* "frozen_frame_renders" series, an empty series or no call trees of the
\* active thread; in every case the list it was given stays a prefix of the
\* list, and the appended occurrences belong to distinct measurement values,
\* in the order of the values.
C13_OnlyAppendsOnePerValue ==
    /\ cause_pc \in {"start", "values", "roots", "done"}
    /\ CauseCanStep \/ CauseReturned
    /\ NothingToDo => occurrences = occurrences_in
    /\ Len(occurrences) >= Len(occurrences_in)
    /\ SubSeq(occurrences, 1, Len(occurrences_in)) = occurrences_in
    /\ Len(Appended) = Len(origins)
    /\ HasFrameDrops => Len(Appended) <= Len(FrameDropValues)
    /\ \A k \in 1..Len(origins) :
          /\ origins[k].mv \in 1..mv_index
          /\ origins[k].node_info.category = "frame_drop"
          /\ \A j \in 1..(k - 1) : origins[j].mv < origins[k].mv

C13_Witness ==
    /\ CauseReturned
    /\ HasFrameDrops
    /\ occurrences_in # << >>
    /\ Len(FrameDropValues) = 2
    /\ Len(Appended) = 1
    /\ origins[1].mv = 2

\* The frames of a stack trace without a function name, or with an empty one.
UnknownInTrace(stack_trace) ==
    Cardinality({k \in 1..Len(stack_trace) :
                    \/ stack_trace[k].function = None
                    \/ Unwrap(stack_trace[k].function) = Empty})

\* The i-th root yields a candidate for the v-th measurement value.
YieldsCandidate(v, i) == RootCauseAt(v, i) # None

\* The i-th root yields a candidate whose trace has fewer than 80% unknown
\* frames.
YieldsReportable(v, i) ==
    /\ YieldsCandidate(v, i)
    /\ LET trace == NodeInfo(Unwrap(RootCauseAt(v, i))).stack_trace
       IN UnknownInTrace(trace) * 100 < Len(trace) * 80

\* C18 (as stated): for each measurement value the scan of the roots stops
\* at the first root that yields a candidate: an occurrence comes from the
\* first such root, and a root is examined only when none of the roots
\* before it has yielded a candidate.
C18_StopsAtFirstCandidate ==
    /\ \A k \in 1..Len(origins) :
          /\ YieldsCandidate(origins[k].mv, origins[k].root)
          /\ \A i \in 1..(origins[k].root - 1) : ~YieldsCandidate(origins[k].mv, i)
    /\ (cause_pc = "roots" /\ root_index < NumRoots) =>
          \A i \in 1..root_index : ~YieldsCandidate(mv_index, i)

\* C18 (amended): for each measurement value the scan of the roots, in
\* forest order, stops at the first root that yields a candidate with
\* fewer than 80% unknown frames: the occurrence of the value comes from
\* that root, no later root is examined, and a root whose candidate is
\* rejected does not stop the scan.
C18_StopsAtFirstReportable ==
    /\ \A k \in 1..Len(origins) :
          /\ YieldsReportable(origins[k].mv, origins[k].root)
          /\ \A i \in 1..(origins[k].root - 1) : ~YieldsReportable(origins[k].mv, i)
    /\ (cause_pc = "roots" /\ root_index < NumRoots) =>
          \A i \in 1..root_index : ~YieldsReportable(mv_index, i)
    /\ (CauseReturned /\ HasFrameDrops /\ HasCallTrees) =>
          \A v \in 1..Len(FrameDropValues) :
              (\E i \in 1..NumRoots : YieldsReportable(v, i))
                  => \E k \in 1..Len(origins) : origins[k].mv = v

\* The first root gave a candidate that was rejected, and the occurrence
\* comes from the second root.
C18_Witness ==
    /\ CauseReturned
    /\ \E k \in 1..Len(origins) :
          /\ origins[k].root = 2
          /\ YieldsCandidate(origins[k].mv, 1)
          /\ ~YieldsReportable(origins[k].mv, 1)

\* A step of the scan on a root that yields a candidate.
CandidateStep ==
    /\ cause_pc = "roots"
    /\ root_index < NumRoots
    /\ root_index' = root_index + 1
    /\ YieldsCandidate(mv_index, root_index + 1)

\* C19: no occurrence is emitted for a stack trace of which 80% or more of
\* the frames have a missing or empty function name, and every candidate
\* the scan obtains that is below the threshold is emitted, with its trace.
C19_UnknownFramesFilter ==
    /\ [](\A k \in 1..Len(origins) :
             LET trace == origins[k].node_info.stack_trace
             IN UnknownInTrace(trace) * 100 < Len(trace) * 80)
    /\ [][CandidateStep =>
             LET trace == NodeInfo(Unwrap(RootCauseAt(mv_index, root_index + 1))).stack_trace
             IN IF UnknownInTrace(trace) * 100 < Len(trace) * 80
                THEN /\ Len(occurrences') = Len(occurrences) + 1
                     /\ origins'[Len(origins')].node_info.stack_trace = trace
                ELSE occurrences' = occurrences]_vars

\* An occurrence with a trace of five frames, three of them unknown, has
\* been emitted.
C19_Witness ==
    /\ CauseReturned
    /\ \E k \in 1..Len(origins) :
          /\ Len(origins[k].node_info.stack_trace) = 5
          /\ UnknownInTrace(origins[k].node_info.stack_trace) = 3

\* ------------------------------------------------------------------------
\* More properties of Frame::normalize
\* ------------------------------------------------------------------------
\* data.symbolicator_status of the frame, empty when there is none.
SymbolicatorStatus(f) ==
    IF IsSome(f.data) /\ IsSome(Unwrap(f.data)) THEN Unwrap(Unwrap(f.data)) ELSE Empty

\* The in_app of the frame is decided by the rule of its platform tag.
DecidedByRule == ~(IsSome(norm_frame_in.in_app) /\ PlatformTag = norm_platform)

\* What the package of a Cocoa frame says of it.
CocoaByPackage(f) ==
    /\ module_or_package(f) \notin COCOA_SYSTEM_PACKAGE
    /\ IsSome(f.package)
    /\ is_cocoa_application_package(Unwrap(f.package))

\* C21: normalize sets status from a non-empty symbolicator status before
\* it decides in_app: a Cocoa frame named main or UIApplicationMain whose
\* in_app the rule decides is system when its symbolicator status is
\* "symbolicated", whatever its package and its status before the call;
\* when neither the symbolicator status nor the status left in place is
\* "symbolicated", its in_app is what its package says.
C21_StatusBeforeInApp ==
    (/\ NormReturned
     /\ PlatformTag = "Cocoa"
     /\ DecidedByRule
     /\ norm_frame_in.function \in {Some(Literals.main), Some(Literals.UIApplicationMain)})
    => /\ SymbolicatorStatus(norm_frame_in) = Literals.symbolicated
            => /\ norm_frame.status = Some(Literals.symbolicated)
               /\ norm_frame.in_app = Some(FALSE)
       /\ (/\ SymbolicatorStatus(norm_frame_in) # Literals.symbolicated
           /\ ~(/\ SymbolicatorStatus(norm_frame_in) = Empty
                /\ norm_frame_in.status = Some(Literals.symbolicated)))
            => norm_frame.in_app = Some(CocoaByPackage(norm_frame_in))

\* normalize has returned on a frame named main of a Cocoa profile, with a
\* package in the app bundle, no status and no in_app, whose symbolicator
\* status is "symbolicated": it is a system frame.
C21_Witness ==
    /\ NormReturned
    /\ norm_platform = "Cocoa"
    /\ norm_frame_in.platform = None
    /\ norm_frame_in.in_app = None
    /\ norm_frame_in.function = Some(Literals.main)
    /\ norm_frame_in.status = None
    /\ SymbolicatorStatus(norm_frame_in) = Literals.symbolicated
    /\ CocoaByPackage(norm_frame_in)
    /\ norm_frame.in_app = Some(FALSE)

\* The package path of the frame is one the Rust rule names: the standard
\* library, the toolchain or the system dynamic linker.
RustSystemPackage(f) ==
    /\ IsSome(f.package)
    /\ \/ Contains(Unwrap(f.package), Literals.library_std_src)
       \/ StartsWith(Unwrap(f.package), Literals.usr_lib_system)
       \/ StartsWith(Unwrap(f.package), Literals.rustc)
       \/ StartsWith(Unwrap(f.package), Literals.usr_local_rustup)
       \/ StartsWith(Unwrap(f.package), Literals.usr_local_cargo)

\* C22 (as stated): a Rust frame whose in_app the rule decides is system if
\* and only if its package path is under the standard library, the
\* toolchain paths or the system dynamic linker path; every other Rust
\* frame, whatever else it lacks, is application.
C22_SystemIffSystemPackage ==
    (NormReturned /\ PlatformTag = "Rust" /\ DecidedByRule)
    => norm_frame.in_app = Some(~RustSystemPackage(norm_frame_in))

\* C22 (amended): a Rust frame whose in_app the rule decides is system if
\* and only if it has no package or its package path is under the standard
\* library, the toolchain paths or the system dynamic linker path; every
\* other Rust frame is application.
C22_SystemIffNoOrSystemPackage ==
    (NormReturned /\ PlatformTag = "Rust" /\ DecidedByRule)
    => norm_frame.in_app =
         Some(~(norm_frame_in.package = None \/ RustSystemPackage(norm_frame_in)))

\* normalize has returned on a Rust frame with no package, no module and
\* no path, whose in_app the rule decided: it is a system frame.
C22_Witness ==
    /\ NormReturned
    /\ PlatformTag = "Rust"
    /\ DecidedByRule
    /\ norm_frame_in.package = None
    /\ norm_frame_in.module = None
    /\ norm_frame_in.path = None
    /\ norm_frame.in_app = Some(FALSE)

\* ------------------------------------------------------------------------
\* Frame::module_or_package (src/src/frame/mod.rs)
\* ------------------------------------------------------------------------
\* The longest package path drawn byte by byte.
MaxPkgLen == 4

\* The bytes the package paths are drawn from: / \ : . a
PkgBytes == {47, 92, 58, 46, 97}

\* The byte strings of at most n bytes of PkgBytes.
RECURSIVE PkgStrings(_)
PkgStrings(n) ==
    IF n = 0 THEN {Empty}
    ELSE LET shorter == PkgStrings(n - 1)
         IN shorter \cup {Append(s, b) : s \in {x \in shorter : Len(x) = n - 1}, b \in PkgBytes}

\* The packages of test_trim_package, each with the name the test expects.
TestPackages ==
    {
      \* "/System/Library/PrivateFrameworks/UIKitCore.framework/UIKitCore"
      << << 47, 83, 121, 115, 116, 101, 109, 47, 76, 105, 98, 114, 97, 114, 121, 47, 80, 114, 105, 118, 97, 116, 101, 70, 114, 97, 109, 101, 119, 111, 114, 107, 115, 47, 85, 73, 75, 105, 116, 67, 111, 114, 101, 46, 102, 114, 97, 109, 101, 119, 111, 114, 107, 47, 85, 73, 75, 105, 116, 67, 111, 114, 101 >>,
         << 85, 73, 75, 105, 116, 67, 111, 114, 101 >> >>,
      \* "/usr/lib/system/libsystem_pthread.dylib"
      << << 47, 117, 115, 114, 47, 108, 105, 98, 47, 115, 121, 115, 116, 101, 109, 47, 108, 105, 98, 115, 121, 115, 116, 101, 109, 95, 112, 116, 104, 114, 101, 97, 100, 46, 100, 121, 108, 105, 98 >>,
         << 108, 105, 98, 115, 121, 115, 116, 101, 109, 95, 112, 116, 104, 114, 101, 97, 100 >> >>,
      \* "/lib/x86_64-linux-gnu/libc.so.6"
      << << 47, 108, 105, 98, 47, 120, 56, 54, 95, 54, 52, 45, 108, 105, 110, 117, 120, 45, 103, 110, 117, 47, 108, 105, 98, 99, 46, 115, 111, 46, 54 >>,
         << 108, 105, 98, 99, 46, 115, 111, 46, 54 >> >>,
      \* "/foo"
      << << 47, 102, 111, 111 >>,
         << 102, 111, 111 >> >>,
      \* "/foo/"
      << << 47, 102, 111, 111, 47 >>,
         << 102, 111, 111 >> >>,
      \* "/foo//"
      << << 47, 102, 111, 111, 47, 47 >>,
         << 47, 102, 111, 111, 47, 47 >> >>,
      \* "C:\WINDOWS\SYSTEM32\ntdll.dll"
      << << 67, 58, 92, 87, 73, 78, 68, 79, 87, 83, 92, 83, 89, 83, 84, 69, 77, 51, 50, 92, 110, 116, 100, 108, 108, 46, 100, 108, 108 >>,
         << 110, 116, 100, 108, 108 >> >>,
      \* "C:\Program Files\Foo 2023.3\bin\foo.exe"
      << << 67, 58, 92, 80, 114, 111, 103, 114, 97, 109, 32, 70, 105, 108, 101, 115, 92, 70, 111, 111, 32, 50, 48, 50, 51, 46, 51, 92, 98, 105, 110, 92, 102, 111, 111, 46, 101, 120, 101 >>,
         << 102, 111, 111 >> >>
    }

NameInputs ==
    { Frame(None, module, package, None) :
        module \in {None, Some(Empty), Some(Str_m)},
        package \in {None} \cup {Some(p) : p \in PkgStrings(MaxPkgLen)}
                           \cup {Some(t[1]) : t \in TestPackages} }

NameInit ==
    /\ CallTreesIdle
    /\ FixIdle
    /\ DropIdle
    /\ NormIdle
    /\ CauseIdle
    /\ name_frame \in NameInputs
    /\ name_result = None

\* module_or_package is called on the frame and returns.
NameCall ==
    /\ name_frame # << >>
    /\ name_result = None
    /\ name_result' = Some(module_or_package(name_frame))
    /\ UNCHANGED name_frame
    /\ UNCHANGED notNameVars

NameNext == NameCall

NameSpec == NameInit /\ [][NameNext]_vars

NameReturned == name_frame # << >> /\ IsSome(name_result)

\* The frame has a module that is not empty.
HasModule == IsSome(name_frame.module) /\ Unwrap(name_frame.module) # Empty

\* The frame has no such module and has a package that is not empty.
NamedByPackage ==
    /\ ~HasModule
    /\ IsSome(name_frame.package)
    /\ Unwrap(name_frame.package) # Empty

\* The byte the package path is split on.
SeparatorOf(pkg) ==
    IF \/ Len(pkg) >= 3 /\ IsAsciiLetter(pkg[1]) /\ SubSeq(pkg, 2, 3) = << 58, 92 >>
       \/ Len(pkg) >= 2 /\ SubSeq(pkg, 1, 2) = << 92, 92 >>
    THEN 92 ELSE 47

\* The positions of the separators of the path, with 0 before its start.
SeparatorsOf(pkg) == {0} \cup {i \in 1..Len(pkg) : pkg[i] = SeparatorOf(pkg)}

\* The component of the path that ends before position e (a separator or
\* the end of the path).
ComponentBefore(pkg, e) ==
    LET b == CHOOSE i \in SeparatorsOf(pkg) :
                 i < e /\ \A j \in SeparatorsOf(pkg) : j < e => j <= i
    IN SubSeq(pkg, b + 1, e - 1)

\* The last component of the path that is not empty, empty when all are.
LastNonEmptyComponent(pkg) ==
    LET ends == {e \in (SeparatorsOf(pkg) \cup {Len(pkg) + 1}) \ {0} :
                     ComponentBefore(pkg, e) # Empty}
    IN IF ends = {} THEN Empty
       ELSE ComponentBefore(pkg, CHOOSE e \in ends : \A x \in ends : x <= e)

\* The last component of the path or, when that one is empty, the one
\* before it; empty when there is none.
LastOrBeforeLast(pkg) ==
    LET last == ComponentBefore(pkg, Len(pkg) + 1)
        seps == SeparatorsOf(pkg) \ {0}
    IN IF last # Empty \/ seps = {} THEN last
       ELSE ComponentBefore(pkg, CHOOSE e \in seps : \A x \in seps : x <= e)

\* The string without a trailing .dylib, .so, .a, .dll or .exe.
WithoutExtension(name) ==
    LET cut == {k \in 0..Len(name) :
                   SubSeq(name, k + 1, Len(name)) \in PackageExtensions}
    IN IF cut = {} THEN name ELSE SubSeq(name, 1, CHOOSE k \in cut : TRUE)

\* C23 (as stated): module_or_package returns the module when it is not
\* empty; otherwise it splits the package path on backslash (drive-letter
\* or UNC prefix) or forward slash, takes the last non-empty component,
\* removes a trailing .dylib/.so/.a/.dll/.exe extension, and falls back to
\* the raw package string only when that result is empty.
C23_LastNonEmptyComponent ==
    NameReturned =>
        /\ HasModule => Unwrap(name_result) = Unwrap(name_frame.module)
        /\ NamedByPackage =>
             LET pkg == Unwrap(name_frame.package)
                 name == WithoutExtension(LastNonEmptyComponent(pkg))
             IN /\ name # Empty => Unwrap(name_result) = name
                /\ name = Empty => Unwrap(name_result) = pkg

\* C23 (amended): module_or_package returns the module when it is not
\* empty; otherwise it splits the package path on backslash (drive-letter
\* or UNC prefix) or forward slash, takes the last component or, when that
\* one is empty, the one before it, falls back to the raw package string
\* only when the component taken is empty, and then removes a trailing
\* .dylib/.so/.a/.dll/.exe extension.
C23_LastOrBeforeLastComponent ==
    NameReturned =>
        /\ HasModule => Unwrap(name_result) = Unwrap(name_frame.module)
        /\ NamedByPackage =>
             LET pkg == Unwrap(name_frame.package)
                 component == LastOrBeforeLast(pkg)
             IN /\ component # Empty
                     => Unwrap(name_result) = WithoutExtension(component)
                /\ component = Empty
                     => Unwrap(name_result) = WithoutExtension(pkg)
        /\ \A t \in TestPackages :
             (~HasModule /\ name_frame.package = Some(t[1]))
                 => Unwrap(name_result) = t[2]

\* module_or_package has returned on a frame without a module whose package
\* is "/foo//" of test_trim_package: its name is the whole package, although
\* the path has the component "foo".
C23_Witness ==
    /\ NameReturned
    /\ name_frame.module = None
    /\ name_frame.package = Some(<< 47, 102, 111, 111, 47, 47 >>)
    /\ LastNonEmptyComponent(Unwrap(name_frame.package)) = << 102, 111, 111 >>
    /\ name_result = name_frame.package

\* ------------------------------------------------------------------------
\* The depth of the call trees
\* ------------------------------------------------------------------------
\* C24 (as stated): tree depth is bounded by MAX_STACK_DEPTH: no node of a
\* forest built by call_trees is deeper than the bound, for any input stack
\* length.
C24_DepthBounded ==
    \A t \in DOMAIN trees_by_thread_id : \A p \in DOMAIN trees_by_thread_id[t] :
        Len(p) <= MAX_STACK_DEPTH

\* ------------------------------------------------------------------------
\* More properties of Android::fix_samples_time
\* ------------------------------------------------------------------------
\* The second loop has been entered (and perhaps left).
RewritePass == fix_pc \in {"rewrite", "done"} /\ IsSome(regression_index)

\* C25: throughout the rewrite pass, for every thread the tracked maximum
\* is at least the tracked latest raw time, and whenever get_adjusted_time
\* is about to compute max + (current - latest) it has current >= latest:
\* the unsigned subtraction does not underflow.
C25_MaxCoversLatest ==
    RewritePass =>
        /\ \A t \in EventThreads :
             ~NsLess(GetOrZero(thread_max_time_ns, t),
                     GetOrZero(thread_latest_sample_time_ns, t))
        /\ (InRewrite /\ HasWallTime(RewriteEvent)) =>
             LET current == CurrentNs(RewriteEvent)
                 max_time == GetOrZero(thread_max_time_ns, RewriteEvent.thread_id)
                 latest_time ==
                     GetOrZero(thread_latest_sample_time_ns, RewriteEvent.thread_id)
             IN ~(NsLess(current, max_time) /\ NsLess(current, latest_time))
                    => /\ ~NsLess(current, latest_time)
                       /\ NsSub(current, latest_time).s >= 0

\* The second loop has rewritten an event and is at an event of a thread
\* whose maximum is above its latest raw time, with a time below the
\* maximum and not below the latest raw time: the difference is taken.
C25_Witness ==
    /\ InRewrite
    /\ event_index > Unwrap(regression_index)
    /\ HasWallTime(RewriteEvent)
    /\ RewriteEvent.thread_id \in DOMAIN thread_latest_sample_time_ns
    /\ NsLess(thread_latest_sample_time_ns[RewriteEvent.thread_id],
              thread_max_time_ns[RewriteEvent.thread_id])
    /\ NsLess(CurrentNs(RewriteEvent), thread_max_time_ns[RewriteEvent.thread_id])
    /\ ~NsLess(CurrentNs(RewriteEvent),
               thread_latest_sample_time_ns[RewriteEvent.thread_id])

\* fix_samples_time has been called again on its own result.
CalledAgain == fix_calls >= 2 \/ (fix_calls = 1 /\ fix_pc # "done")

\* C28 (as stated): fix_samples_time is idempotent: for every event stream
\* and clock a second application changes nothing, because the first
\* application leaves every thread's wall times non-decreasing.
C28_IdempotentAsAllNonDecreasing ==
    /\ CalledAgain => events = events_in
    /\ fix_calls >= 1 => \A t \in EventThreads : NonDecreasing(events, t)

\* C28 (amended): fix_samples_time is idempotent: for every event stream and
\* clock a second application changes nothing, because the first
\* application either returns at once (clock Global or Cpu) or leaves every
\* thread's wall times non-decreasing.
C28_Idempotent ==
    /\ CalledAgain => events = events_in
    /\ (fix_calls >= 1 /\ clock \notin {"Global", "Cpu"})
         => \A t \in EventThreads : NonDecreasing(events, t)

\* The second application has returned on a trace that the first one
\* rewrote.
C28_Witness ==
    /\ fix_pc = "done"
    /\ fix_calls = 2
    /\ clock = "Dual"
    /\ events = events_in
    /\ Len(events) = Len(TestStream)
    /\ \A k \in 1..Len(TestStream) : events[k].thread_id = TestStream[k].thread_id
    /\ \E k \in 1..Len(TestStream) : ~SameWallTime(events[k], TestStream[k])

\* ------------------------------------------------------------------------
\* More properties of SampleChunk::call_trees
\* ------------------------------------------------------------------------
\* The sibling before the node at path p (which is not a first sibling).
PreviousSibling(p) == [p EXCEPT ![Len(p)] = p[Len(p)] - 1]

\* C26: in every forest built by call_trees each child's [start_ns, end_ns]
\* lies within its parent's interval, and the siblings at every position,
\* a thread's roots included, are in ascending time order without overlap:
\* each sibling's end_ns is <= the next sibling's start_ns.
C26_IntervalsNested ==
    \A t \in DOMAIN trees_by_thread_id :
        LET F == trees_by_thread_id[t]
        IN \A p \in DOMAIN F :
             /\ F[p].start_ns <= F[p].end_ns
             /\ Len(p) > 1 =>
                  /\ F[SubSeq(p, 1, Len(p) - 1)].start_ns <= F[p].start_ns
                  /\ F[p].end_ns <= F[SubSeq(p, 1, Len(p) - 1)].end_ns
             /\ p[Len(p)] > 1 =>
                  F[PreviousSibling(p)].end_ns <= F[p].start_ns

\* call_trees has returned a forest in which a root that spans several
\* samples has two children, the second starting after the first has ended
\* and inside the root.
C26_Witness ==
    /\ pc = "done"
    /\ result = "Ok"
    /\ \E t \in DOMAIN trees_by_thread_id :
         LET F == trees_by_thread_id[t]
         IN /\ {<<1>>, <<1, 1>>, <<1, 2>>} \subseteq DOMAIN F
            /\ F[<<1>>].sample_count >= 3
            /\ F[<<1, 1>>].end_ns < F[<<1, 2>>].start_ns
            /\ F[<<1, 2>>].end_ns <= F[<<1>>].end_ns

\* The sample is one the validation of call_trees rejects.
BadSample(x) == BadStackId(x) \/ BadFrameId(x)

\* Thread t is visited and has a visited sample that is rejected.
Fails(t) ==
    \E i \in 1..Len(samples_by_thread_id[t]) :
        Visited(t, i) /\ BadSample(samples_by_thread_id[t][i])

\* The error of the first rejected sample of thread t.
ErrorOf(t) ==
    LET S == samples_by_thread_id[t]
        first == CHOOSE i \in 1..Len(S) :
                     BadSample(S[i]) /\ \A j \in 1..(i - 1) : ~BadSample(S[j])
    IN IF BadStackId(S[first]) THEN "InvalidStackId" ELSE "InvalidFrameId"

\* The forest of the first i samples of the group S, built from nothing but
\* those samples and the sample after them.
RECURSIVE ForestAfter(_, _)
ForestAfter(S, i) ==
    IF i = 0 THEN EmptyForest
    ELSE LET stack == Stacks[S[i].stack_id + 1]
         IN WalkStack(ForestAfter(S, i - 1), stack, Len(stack), None, HasherDefault,
                      ToNs(S[i].timestamp), ToNs(S[i + 1].timestamp)).trees

\* With no failing thread the call returns, for each thread that passes the
\* filter, the forest of the thread's own samples, and no other forest.
SameForestInEveryOrder ==
    (\A t \in DOMAIN samples_by_thread_id : ~Fails(t)) =>
        /\ result = "Ok"
        /\ \A t \in DOMAIN samples_by_thread_id :
             IF PassesFilter(t)
             THEN ForestOf(trees_by_thread_id, t) =
                     ForestAfter(samples_by_thread_id[t],
                                 Len(samples_by_thread_id[t]) - 1)
             ELSE t \notin DOMAIN trees_by_thread_id

\* C30 (as stated): the outcome of call_trees is determined by its input
\* alone: every order in which the groups of the threads are processed
\* gives the same result, the same forest for every thread or the same
\* error variant.  Any failing thread may be the first one processed, so the
\* error returned is the error of each of them.
C30_SameOutcomeInEveryOrder ==
    pc = "done" =>
        /\ SameForestInEveryOrder
        /\ \A t \in DOMAIN samples_by_thread_id : Fails(t) => result = ErrorOf(t)

\* C30 (amended): every order gives the same forest for every thread when
\* no visited sample is rejected, and an error when one is; the error is
\* that of the first rejected sample of one of the failing threads, the
\* same in every order only when the failing threads agree on it.
C30_SameForestOrSomeError ==
    pc = "done" =>
        /\ SameForestInEveryOrder
        /\ (\E t \in DOMAIN samples_by_thread_id : Fails(t)) =>
              /\ \E t \in DOMAIN samples_by_thread_id : Fails(t) /\ result = ErrorOf(t)
              /\ (\A t1, t2 \in {t \in DOMAIN samples_by_thread_id : Fails(t)} :
                     ErrorOf(t1) = ErrorOf(t2))
                 => \A t \in DOMAIN samples_by_thread_id : Fails(t) => result = ErrorOf(t)

\* call_trees has returned InvalidFrameId for a chunk in which thread "1"
\* fails with InvalidStackId and thread "2" with InvalidFrameId.
C30_Witness ==
    /\ pc = "done"
    /\ result = "InvalidFrameId"
    /\ {"1", "2"} \subseteq DOMAIN samples_by_thread_id
    /\ Fails("1") /\ ErrorOf("1") = "InvalidStackId"
    /\ Fails("2") /\ ErrorOf("2") = "InvalidFrameId"

\* ------------------------------------------------------------------------
\* More properties of find_frame_drop_cause
\* ------------------------------------------------------------------------
\* C29: the last frame of a candidate's stack trace, the cause node's, has a
\* function name that is not empty, so a candidate whose trace has fewer
\* than 5 frames is never discarded by the unknown-frames filter: the filter
\* rejects only traces of 5 or more frames.
C29_ShortTracesPassFilter ==
    [][CandidateStep =>
          LET trace == NodeInfo(Unwrap(RootCauseAt(mv_index, root_index + 1))).stack_trace
              last == trace[Len(trace)]
          IN /\ Len(trace) >= 1
             /\ IsSome(last.function) /\ Unwrap(last.function) # Empty
             /\ UnknownInTrace(trace) <= Len(trace) - 1
             /\ Len(trace) < 5 => Len(occurrences') = Len(occurrences) + 1
             /\ occurrences' = occurrences => Len(trace) >= 5]_vars

\* An occurrence has been emitted for a trace of four frames of which all
\* but the cause node's are unknown.
C29_Witness ==
    /\ CauseReturned
    /\ \E k \in 1..Len(origins) :
          /\ Len(origins[k].node_info.stack_trace) = 4
          /\ UnknownInTrace(origins[k].node_info.stack_trace) = 3

\* ------------------------------------------------------------------------
\* The frame drop search over the forests call_trees builds
\* ------------------------------------------------------------------------
\* Frozen frames with a stall of 2 ns or more, ending 3 ns in.
StallValues == { MeasurementValue(3, d) : d \in {2, 5, 10} }

\* The node at path p of forest F is a valid candidate for the frozen frame.
ValidFor(mv, F, p) ==
    is_node_stack_valid(FrozenFrameStatsNew(mv.elapsed_since_start_ns, mv.value),
                        NodeStack(Len(p) - 1, F[p], << >>))

\* The roots of forest F in which the search finds a cause of the frozen frame.
RootsWithCause(mv, F) ==
    { i \in 1..NumChildren(F, << >>) :
        find_frame_drop_cause_frame(
            FrozenFrameStatsNew(mv.elapsed_since_start_ns, mv.value),
            F, << i >>, << >>, 0) # None }

\* C27: in a forest built by call_trees, for a frozen frame with a stall of
\* 2 ns or more, any two valid candidates are ancestor and descendant of
\* each other, so at most one root of a thread holds a valid candidate: the
\* scan of the roots that stops at the first cause and a search over all
\* the roots have a single cause to choose from.
C27_CandidatesOnOnePath ==
    (pc = "done" /\ result = "Ok") =>
        \A t \in DOMAIN trees_by_thread_id : \A mv \in StallValues :
            LET F == trees_by_thread_id[t]
                valid == {p \in DOMAIN F : ValidFor(mv, F, p)}
            IN /\ \A p \in valid : \A q \in valid : IsPrefix(p, q) \/ IsPrefix(q, p)
               /\ Cardinality({p[1] : p \in valid}) <= 1
               /\ Cardinality(RootsWithCause(mv, F)) <= 1
               /\ RootsWithCause(mv, F) = {p[1] : p \in valid}

\* call_trees has returned a forest with two roots of the same function:
\* for a stall of 2 ns the first root and its child are both valid
\* candidates, and the second root, which starts too late, is not.
C27_Witness ==
    /\ pc = "done" /\ result = "Ok"
    /\ \E t \in DOMAIN trees_by_thread_id :
         LET F == trees_by_thread_id[t]
             mv == MeasurementValue(3, 2)
         IN /\ {<<1>>, <<1, 1>>, <<2>>} \subseteq DOMAIN F
            /\ ValidFor(mv, F, <<1>>)
            /\ ValidFor(mv, F, <<1, 1>>)
            /\ F[<<2>>].name = F[<<1>>].name
            /\ F[<<2>>].is_application
            /\ ~ValidFor(mv, F, <<2>>)
            /\ RootsWithCause(mv, F) = {1}

====
